---------------------------- MODULE Spec2Model ----------------------------
(***************************************************************************)
(* Model of the LaunchDarkly -> Statsig migration script: the dependency   *)
(* resolver (util.ts / import.ts) and the import / delete orchestration    *)
(* (cli.ts, import.ts, statsig.ts), and the flag translator                *)
(* (launchdarkly.ts).                                                      *)
(***************************************************************************)
EXTENDS Integers, Sequences, FiniteSets, TLC

VARIABLES
  \* ---- dependency resolver (one call of the sorter, loop by loop) ----
  sConfigs,     \* the argument `configs`
  sType,        \* the argument `configType` ("gate" | "segment")
  sRemaining,   \* the Set `remaining`, in insertion order
  sResult,      \* the array `result`
  sPc,          \* "loop" | "done" | "error" (the thrown Error)
  \* ---- one migration run after the other against the same target ----
  validConfigs,      \* configTransformResult.validConfigs
  target,            \* the Statsig project: gates, dynamic configs, segments
  tagExists,         \* whether the import tag exists in the project
  pc,                \* where cli() stands
  run,               \* number of the current run
  faults,            \* non-2xx answers the project has given to mutating calls
  previewShown,      \* the preview of valid configs and errors was printed
  proceedImport,     \* answer to the import prompt ("none" | "yes" | "no")
  proceedDelete,     \* answer to the delete-and-re-import prompt
  calls,             \* mutating calls of this run, in the order issued
  untaggedConfigIds, \* the conflict lists, concatenated as cli() does
  configToImport,    \* what cli() hands to importConfigs
  idx,               \* position of importConfigs in its loop
  importResults,     \* ConfigImportResult
  startTarget,       \* the project as it was when this run started
  \* ---- one call of getLaunchDarklyConfigs, flag by flag ----
  flags,                 \* the fetched LaunchDarkly flags, in fetch order
  args,                  \* the command-line arguments the translator reads
  flagIdx,               \* position of flags.forEach
  configTransformResult, \* validConfigs, noticesByConfigName, errorsByConfigName
  tPc,                   \* "run" | "segments" | "done" | "thrown" (an Error
                         \* left the call)
  ldSegmentsByEnv,       \* the fetched segments, environment by environment
  segmentIdx             \* position of the loop over segmentResults

sortVars == <<sConfigs, sType, sRemaining, sResult, sPc>>

runVars == <<validConfigs, target, tagExists, pc, run, faults, previewShown,
             proceedImport, proceedDelete, calls, untaggedConfigIds,
             configToImport, idx, importResults, startTarget>>

transVars == <<flags, args, flagIdx, configTransformResult, tPc,
               ldSegmentsByEnv, segmentIdx>>

vars == <<sConfigs, sType, sRemaining, sResult, sPc,
          validConfigs, target, tagExists, pc, run, faults, previewShown,
          proceedImport, proceedDelete, calls, untaggedConfigIds,
          configToImport, idx, importResults, startTarget,
          flags, args, flagIdx, configTransformResult, tPc,
          ldSegmentsByEnv, segmentIdx>>

(***************************************************************************)
(* Generic helpers                                                         *)
(***************************************************************************)
Range(s) == {s[i] : i \in 1..Len(s)}

IsDistinct(s) == \A i, j \in 1..Len(s) : i # j => s[i] # s[j]

IdsOf(configs) == {configs[i].id : i \in 1..Len(configs)}

(***************************************************************************)
(* StatsigCondition (types.ts): `type`, and `targetValue`, which is either *)
(* a scalar (arr = FALSE, the string v) or an array (arr = TRUE, the one   *)
(* element v).  v = "" stands for an absent targetValue.                   *)
(***************************************************************************)
Cond(type, arr, v) == [type |-> type, arr |-> arr, v |-> v]

\* the condition types the sorter looks at for each configType
RefTypes(configType) ==
  IF configType = "gate" THEN {"passes_gate", "fails_gate"}
                         ELSE {"passes_segment", "fails_segment"}

\* all conditions of all rules of a config
AllConditions(config) ==
  UNION { Range(config.rules[r].conditions) : r \in 1..Len(config.rules) }

\* `targetConfig && configMap.has(targetConfig)` with targetConfig =
\* condition.targetValue: an array is truthy but is never a key of the Map
TargetInMap(cond, configs) ==
  /\ ~cond.arr
  /\ cond.v # ""
  /\ cond.v \in IdsOf(configs)

\* the Map `dependencies`: id -> the ids of the configs that reference it
DependenciesReversed(configs, configType) ==
  [id \in IdsOf(configs) |->
     { cond.v : cond \in
         { c \in UNION {AllConditions(configs[i]) :
                           i \in {k \in 1..Len(configs) : configs[k].id = id}} :
             c.type \in RefTypes(configType) /\ TargetInMap(c, configs) } }]

Dependencies(configs, configType) ==
  [id \in IdsOf(configs) |->
     { configs[i].id : i \in
         { k \in 1..Len(configs) :
             \E cond \in AllConditions(configs[k]) :
                /\ cond.type \in RefTypes(configType)
                /\ TargetInMap(cond, configs)
                /\ cond.v = id } }]

\* new Set(configs.map(c => c.id)): first occurrences, in order
RECURSIVE DedupIds(_, _)
DedupIds(configs, acc) ==
  IF configs = <<>> THEN acc
  ELSE DedupIds(Tail(configs),
                IF Head(configs).id \in Range(acc) THEN acc
                ELSE Append(acc, Head(configs).id))

InitialRemaining(configs) == DedupIds(configs, <<>>)

\* configMap.get(id): the Map constructor keeps the last entry of a key
ConfigMapGet(configs, id) ==
  configs[CHOOSE i \in 1..Len(configs) :
            /\ configs[i].id = id
            /\ \A j \in 1..Len(configs) : configs[j].id = id => j <= i]

\* Array.from(deps).some(dep => remaining.has(dep))
HasUnresolvedDeps(deps, configId, remaining) ==
  \E dep \in deps[configId] : dep \in Range(remaining)

\* positions of `remaining` whose config has no unresolved dependency
Eligible(deps, remaining) ==
  { i \in 1..Len(remaining) : ~HasUnresolvedDeps(deps, remaining[i], remaining) }

RemoveAt(s, i) == SubSeq(s, 1, i - 1) \o SubSeq(s, i + 1, Len(s))

\* one iteration of `while (remaining.size > 0)`; never leaves the loop
\* when no config is eligible (the mutant without the throw)
SortIterationNoThrow(configs, deps, remaining, result) ==
  LET el == Eligible(deps, remaining) IN
  IF el = {}
  THEN [pc |-> "loop", remaining |-> remaining, result |-> result]
  ELSE LET i == CHOOSE k \in el : \A m \in el : k <= m IN
       [pc        |-> IF Len(remaining) = 1 THEN "done" ELSE "loop",
        remaining |-> RemoveAt(remaining, i),
        result    |-> Append(result, ConfigMapGet(configs, remaining[i]))]

\* one iteration of `while (remaining.size > 0)`: the first eligible id in
\* insertion order is pushed and deleted; none found throws
SortIteration(configs, deps, remaining, result) ==
  LET el == Eligible(deps, remaining) IN
  IF el = {}
  THEN [pc |-> "error", remaining |-> remaining, result |-> result]
  ELSE LET i == CHOOSE k \in el : \A m \in el : k <= m IN
       [pc        |-> IF Len(remaining) = 1 THEN "done" ELSE "loop",
        remaining |-> RemoveAt(remaining, i),
        result    |-> Append(result, ConfigMapGet(configs, remaining[i]))]

\* the whole loop, as the callers use it: the result, or "error"
RECURSIVE SortLoop(_, _, _, _)
SortLoop(configs, deps, remaining, result) ==
  IF remaining = <<>> THEN [ok |-> TRUE, result |-> result]
  ELSE LET st == SortIteration(configs, deps, remaining, result) IN
       IF st.pc = "error" THEN [ok |-> FALSE, result |-> <<>>]
       ELSE SortLoop(configs, deps, st.remaining, st.result)

sortConfigsFromDependentToIndependent(configs, configType) ==
  SortLoop(configs, Dependencies(configs, configType),
           InitialRemaining(configs), <<>>)

(***************************************************************************)
(* The Statsig project                                                     *)
(***************************************************************************)
LAUNCHDARKLY_IMPORT_TAG == "Imported from LaunchDarkly"

Kinds == {"gate", "dynamic_config", "segment"}
RunIds == {"X", "Y"}
Slots == Kinds \X RunIds

\* a gate, dynamic config or segment of the project, or its absence (the
\* 404 / null of getStatsigGate, getStatsigDynamicConfig, getStatsigSegment)
Absent == [present |-> FALSE, tags |-> <<>>, rules |-> <<>>]
Stored(tags, rules) == [present |-> TRUE, tags |-> tags, rules |-> rules]

EmptyResults ==
  [totalConfigImported |-> 0, errorsByConfigName |-> {}, noticesByConfigName |-> {}]

\* the run variables while only the resolver is exercised
RunIdle ==
  /\ validConfigs = <<>>
  /\ target = [s \in Slots |-> Absent]
  /\ tagExists = FALSE
  /\ pc = "idle"
  /\ run = 1
  /\ faults = 0
  /\ previewShown = FALSE
  /\ proceedImport = "none"
  /\ proceedDelete = "none"
  /\ calls = <<>>
  /\ untaggedConfigIds = <<>>
  /\ configToImport = <<>>
  /\ idx = 1
  /\ importResults = EmptyResults
  /\ startTarget = [s \in Slots |-> Absent]

\* the resolver variables while a run is exercised
SortIdle ==
  /\ sConfigs = <<>>
  /\ sType = "gate"
  /\ sRemaining = <<>>
  /\ sResult = <<>>
  /\ sPc = "done"

\* configTransformResult as getLaunchDarklyConfigs creates it
EmptyTransformResult ==
  [validConfigs |-> <<>>, noticesByConfigName |-> <<>>,
   errorsByConfigName |-> <<>>]

\* the translator variables while the resolver or a run is exercised
TransIdle ==
  /\ flags = <<>>
  /\ args = <<>>
  /\ flagIdx = 1
  /\ configTransformResult = EmptyTransformResult
  /\ tPc = "done"
  /\ ldSegmentsByEnv = <<>>
  /\ segmentIdx = 1

(***************************************************************************)
(* Inputs of the resolver specification                                    *)
(***************************************************************************)
SortIds == {"A", "B", "C"}
IdOrder == <<"A", "B", "C">>
OutsideId == "Z"

\* references to "B" are fails_*, the others passes_*
RefType(configType, tgt) ==
  IF configType = "gate"
  THEN (IF tgt = "B" THEN "fails_gate" ELSE "passes_gate")
  ELSE (IF tgt = "B" THEN "fails_segment" ELSE "passes_segment")

OtherType(configType) == IF configType = "gate" THEN "segment" ELSE "gate"

Rule(conds) == [conditions |-> conds]

\* one rule per referenced id, in IdOrder
RECURSIVE RefRules(_, _, _)
RefRules(configType, targets, k) ==
  IF k > Len(IdOrder) THEN <<>>
  ELSE (IF IdOrder[k] \in targets
        THEN <<Rule(<<Cond("public", FALSE, ""),
                      Cond(RefType(configType, IdOrder[k]), FALSE, IdOrder[k])>>)>>
        ELSE <<>>) \o RefRules(configType, targets, k + 1)

\* an extra rule that names `tgt` without being a reference the sorter
\* may use: an array tgt, an id outside the batch, or the other kind's
\* condition type
DecoyKinds == {"none", "array", "outside", "otherType"}

DecoyRules(configType, kind, tgt) ==
  CASE kind = "none"      -> <<>>
    [] kind = "array"     -> <<Rule(<<Cond(RefType(configType, tgt), TRUE, tgt)>>)>>
    [] kind = "outside"   -> <<Rule(<<Cond(RefType(configType, tgt), FALSE, OutsideId)>>)>>
    [] kind = "otherType" -> <<Rule(<<Cond(RefType(OtherType(configType), tgt), FALSE, tgt)>>)>>

\* sequences of distinct ids
IdLists == { s \in UNION {[1..n -> SortIds] : n \in 0..Cardinality(SortIds)} :
               IsDistinct(s) }

SortInput(configType, ids, refs, decoy) ==
  [i \in 1..Len(ids) |->
     [id    |-> ids[i],
      rules |-> RefRules(configType, refs[ids[i]], 1)
                \o (IF i = 1 THEN DecoyRules(configType, decoy, ids[Len(ids)])
                    ELSE <<>>)]]

InitSortWith(decoys) ==
  /\ sType \in {"gate", "segment"}
  /\ \E ids \in IdLists, decoy \in decoys :
       \E refs \in [Range(ids) -> SUBSET SortIds] :
          sConfigs = SortInput(sType, ids, refs, decoy)
  /\ sRemaining = InitialRemaining(sConfigs)
  /\ sResult = <<>>
  /\ sPc = IF sConfigs = <<>> THEN "done" ELSE "loop"
  /\ RunIdle
  /\ TransIdle

InitSort == InitSortWith(DecoyKinds)

InitSortLive == InitSortWith({"none", "array"})

\* one pass of the while loop of the sorter
SortStep ==
  /\ sPc = "loop"
  /\ LET st == SortIteration(sConfigs, Dependencies(sConfigs, sType),
                             sRemaining, sResult) IN
       /\ sPc' = st.pc
       /\ sRemaining' = st.remaining
       /\ sResult' = st.result
  /\ UNCHANGED <<sConfigs, sType>>
  /\ UNCHANGED <<runVars, transVars>>

NextSort == SortStep

SpecSort == InitSort /\ [][NextSort]_vars

\* the loop is synchronous code: a pass that can run does run
SpecSortLive == InitSortLive /\ [][NextSort]_vars /\ WF_vars(SortStep)


(***************************************************************************)
(* Inputs of a run: what getLaunchDarklyConfigs hands to cli()             *)
(***************************************************************************)
MaxFlags == 2
MaxSegments == 1
MaxPreexisting == 2
MaxRuns == 2
MaxFaults == 1

\* the catch-all rule every flag ends with
Fallthrough == Rule(<<Cond("public", FALSE, "")>>)

\* the tags and the display name of the LaunchDarkly object with this key
OwnTags(id) == IF id = "X" THEN <<"ld">> ELSE <<>>
DisplayName(id) == IF id = "X" THEN "X" ELSE "Checkout"

OtherId(id) == IF id = "X" THEN "Y" ELSE "X"

\* rules of a translated flag: nothing but the fallthrough, a prerequisite
\* on flag `other` (scalar target value), or a segmentMatch clause on
\* segment `seg` (the clause's value list is the target value)
FlagShapes == {"plain", "prerequisite", "segmentMatch"}

ShapeRules(shape, other, seg) ==
  CASE shape = "plain"        -> <<Fallthrough>>
    [] shape = "prerequisite" -> <<Rule(<<Cond("fails_gate", FALSE, other)>>), Fallthrough>>
    [] shape = "segmentMatch" -> <<Rule(<<Cond("passes_segment", TRUE, seg)>>), Fallthrough>>

Wrapper(type, id, tags, rules, overrides) ==
  [type |-> type, id |-> id, name |-> DisplayName(id), tags |-> tags,
   rules |-> rules, overrides |-> overrides]

\* tags: flag.tags; only the gate with key "X" has individual targets, hence overrides
FlagConfig(kind, id, shape, seg) ==
  Wrapper(kind, id, OwnTags(id), ShapeRules(shape, OtherId(id), seg),
          IF kind = "gate" /\ id = "X" THEN 1 ELSE 0)

\* a translated segment carries no tags of its own
SegmentConfig(id, shape) ==
  Wrapper("segment", id, <<>>,
          IF shape = "plain" THEN <<Rule(<<Cond("user_id", TRUE, "u1")>>)>>
          ELSE <<Rule(<<Cond("passes_segment", TRUE, OtherId(id))>>)>>,
          0)

KeyLists(n) == { ks \in UNION {[1..m -> RunIds] : m \in 0..n} : IsDistinct(ks) }

\* the valid segments, in the order transformAllSegments returns them
SegmentLists ==
  UNION { { [i \in 1..Len(ks) |-> SegmentConfig(ks[i], sh[i])] :
              sh \in [1..Len(ks) -> {"plain", "segmentMatch"}] } :
          ks \in KeyLists(MaxSegments) }

WellFormedSegments(segs) ==
  /\ \A i \in 1..Len(segs) : segs[i].type = "segment"
  /\ \A i \in 1..Len(segs) :
       \A c \in AllConditions(segs[i]) :
          c.type = "passes_segment" => c.v \in IdsOf(segs)

\* the valid flags, in the order the flag keys were listed
FlagLists(segs) ==
  { fl \in UNION { { [i \in 1..Len(ks) |->
                        FlagConfig(kd[i], ks[i], sh[i],
                                   IF segs = <<>> THEN "" ELSE segs[1].id)] :
                       kd \in [1..Len(ks) -> {"gate", "dynamic_config"}],
                       sh \in [1..Len(ks) -> FlagShapes] } :
                   ks \in KeyLists(MaxFlags) } :
      \A i \in 1..Len(fl) : \A c \in AllConditions(fl[i]) :
         \* a prerequisite names a fetched boolean flag, a segment clause
         \* a translated segment
         /\ c.type = "fails_gate" =>
               \E j \in 1..Len(fl) : fl[j].id = c.v /\ fl[j].type = "gate"
         /\ c.type = "passes_segment" => segs # <<>> }

\* what the project holds before the first run: at most MaxPreexisting
\* objects, each carrying the import tag or not
PreexistingTags == {<<LAUNCHDARKLY_IMPORT_TAG>>, <<"manual">>}

InitTargets ==
  { t \in [Slots -> {Absent} \cup {Stored(tg, <<>>) : tg \in PreexistingTags}] :
      Cardinality({sl \in Slots : t[sl].present}) <= MaxPreexisting }

(***************************************************************************)
(* statsig.ts / import.ts / cli.ts                                         *)
(***************************************************************************)
\* gate.tags?.includes(importTag)
HasImportTag(obj) == \E i \in 1..Len(obj.tags) : obj.tags[i] = LAUNCHDARKLY_IMPORT_TAG

getConfigID(config) == config.id

\* cli(): validConfigNames
validConfigNames == [i \in 1..Len(validConfigs) |-> getConfigID(validConfigs[i])]

needToDeleteExistingImportedConfigs(configNames) ==
  \E i \in 1..Len(configNames) : \E k \in Kinds : target[<<k, configNames[i]>>].present

\* the first loop of deleteExistingImportedConfigs: a name is looked up as
\* gate, dynamic config and segment, and counted for the first one found
ExistingGateNames(configNames) ==
  SelectSeq(configNames, LAMBDA n : target[<<"gate", n>>].present)

ExistingDynamicConfigNames(configNames) ==
  SelectSeq(configNames, LAMBDA n : /\ ~target[<<"gate", n>>].present
                                    /\ target[<<"dynamic_config", n>>].present)

ExistingSegmentNames(configNames) ==
  SelectSeq(configNames, LAMBDA n : /\ ~target[<<"gate", n>>].present
                                    /\ ~target[<<"dynamic_config", n>>].present
                                    /\ target[<<"segment", n>>].present)

WithoutImportTag(kind, names) ==
  SelectSeq(names, LAMBDA n : ~HasImportTag(target[<<kind, n>>]))

ExistingGates(configNames) ==
  LET names == ExistingGateNames(configNames) IN
  [i \in 1..Len(names) |-> [id |-> names[i], rules |-> target[<<"gate", names[i]>>].rules]]

reorderGatesByDependencies(gates) ==
  SortLoop(gates, Dependencies(gates, "gate"), InitialRemaining(gates), <<>>)

\* the delete calls of deleteExistingImportedConfigs in the order it issues
\* them: segments, then the gates as reordered, then dynamic configs
DeleteOrder(configNames) ==
  LET segs   == ExistingSegmentNames(configNames)
      sorted == reorderGatesByDependencies(ExistingGates(configNames))
      dcs    == ExistingDynamicConfigNames(configNames)
  IN [ok   |-> sorted.ok,
      plan |-> [i \in 1..Len(segs) |-> <<"segment", segs[i]>>]
               \o (IF sorted.ok
                   THEN [i \in 1..Len(sorted.result) |-> <<"gate", sorted.result[i].id>>]
                        \o [i \in 1..Len(dcs) |-> <<"dynamic_config", dcs[i]>>]
                   ELSE <<>>)]

Call(op, kind, id, tags, ok) ==
  [op |-> op, kind |-> kind, id |-> id, tags |-> tags, ok |-> ok]

\* the answers the project may give to a mutating call: 2xx, or a failure
\* while the model's budget of failures lasts
Answers(used) == IF used < MaxFaults THEN {TRUE, FALSE} ELSE {TRUE}

\* a delete of an object that is no longer there is refused as well: the
\* first call of the plan that repeats an earlier one (Len + 1 if none)
FirstRepeat(plan) ==
  LET repeats == {i \in 1..Len(plan) : \E j \in 1..(i - 1) : plan[j] = plan[i]}
  IN IF repeats = {} THEN Len(plan) + 1
     ELSE CHOOSE i \in repeats : \A j \in repeats : i <= j

\* a create of an identifier the project already holds is refused
CreateAnswers(slot, used) == IF target[slot].present THEN {FALSE} ELSE Answers(used)

Init ==
  /\ SortIdle
  /\ TransIdle
  /\ \E segs \in SegmentLists :
       /\ WellFormedSegments(segs)
       /\ \E fl \in FlagLists(segs) : validConfigs = fl \o segs
  /\ target \in InitTargets
  /\ tagExists = \E sl \in Slots : HasImportTag(target[sl])
  /\ pc = "start"
  /\ run = 1
  /\ faults = 0
  /\ previewShown = FALSE
  /\ proceedImport = "none"
  /\ proceedDelete = "none"
  /\ calls = <<>>
  /\ untaggedConfigIds = <<>>
  /\ configToImport = <<>>
  /\ idx = 1
  /\ importResults = EmptyResults
  /\ startTarget = target

\* cli(): the preview of what can and cannot be imported
ShowPreview ==
  /\ pc = "start"
  /\ previewShown' = TRUE
  /\ pc' = "askImport"
  /\ UNCHANGED <<sortVars, transVars>>
  /\ UNCHANGED <<validConfigs, target, tagExists, run, faults, proceedImport,
                 proceedDelete, calls, untaggedConfigIds, configToImport, idx,
                 importResults, startTarget>>

AfterImportPrompt(answer) == IF answer THEN "checkExisting" ELSE "exited"

\* cli(): getYesNo('Proceed to import ...')
AnswerImport ==
  /\ pc = "askImport"
  /\ \E answer \in BOOLEAN :
       /\ proceedImport' = IF answer THEN "yes" ELSE "no"
       /\ pc' = AfterImportPrompt(answer)
  /\ UNCHANGED <<sortVars, transVars>>
  /\ UNCHANGED <<validConfigs, target, tagExists, run, faults, previewShown,
                 proceedDelete, calls, untaggedConfigIds, configToImport, idx,
                 importResults, startTarget>>

\* cli(): configToImport = validConfigs; needToDeleteExistingImportedConfigs
CheckExisting ==
  /\ pc = "checkExisting"
  /\ configToImport' = validConfigs
  /\ pc' = IF needToDeleteExistingImportedConfigs(validConfigNames)
           THEN "askDelete" ELSE "ensureTag"
  /\ UNCHANGED <<sortVars, transVars>>
  /\ UNCHANGED <<validConfigs, target, tagExists, run, faults, previewShown,
                 proceedImport, proceedDelete, calls, untaggedConfigIds, idx,
                 importResults, startTarget>>

AfterDeletePromptAlways(answer) == "delete"

AfterDeletePrompt(answer) == IF answer THEN "delete" ELSE "exited"

\* cli(): getYesNo('... Proceed to delete and re-import them?')
AnswerDelete ==
  /\ pc = "askDelete"
  /\ \E answer \in BOOLEAN :
       /\ proceedDelete' = IF answer THEN "yes" ELSE "no"
       /\ pc' = AfterDeletePrompt(answer)
  /\ UNCHANGED <<sortVars, transVars>>
  /\ UNCHANGED <<validConfigs, target, tagExists, run, faults, previewShown,
                 proceedImport, calls, untaggedConfigIds, configToImport, idx,
                 importResults, startTarget>>

\* deleteExistingImportedConfigs found an object without the import tag:
\* nothing is deleted, cli() drops the conflicting ids from configToImport
DeleteRefused ==
  /\ pc = "delete"
  /\ LET untagged ==
           WithoutImportTag("gate", ExistingGateNames(validConfigNames))
           \o WithoutImportTag("dynamic_config", ExistingDynamicConfigNames(validConfigNames))
           \o WithoutImportTag("segment", ExistingSegmentNames(validConfigNames))
     IN /\ untagged # <<>>
        /\ untaggedConfigIds' = untagged
        /\ configToImport' =
             SelectSeq(configToImport, LAMBDA c : getConfigID(c) \notin Range(untagged))
  /\ pc' = "ensureTag"
  /\ UNCHANGED <<sortVars, transVars>>
  /\ UNCHANGED <<validConfigs, target, tagExists, run, faults, previewShown,
                 proceedImport, proceedDelete, calls, idx, importResults,
                 startTarget>>

\* deleteExistingImportedConfigs found every existing object tagged: the
\* delete calls, up to the first that fails (which throws) or to the throw
\* of reorderGatesByDependencies
DeleteExisting ==
  /\ pc = "delete"
  /\ WithoutImportTag("gate", ExistingGateNames(validConfigNames)) = <<>>
  /\ WithoutImportTag("dynamic_config", ExistingDynamicConfigNames(validConfigNames)) = <<>>
  /\ WithoutImportTag("segment", ExistingSegmentNames(validConfigNames)) = <<>>
  /\ LET order == DeleteOrder(validConfigNames)
         plan  == order.plan
         limit == FirstRepeat(plan) - 1
     IN \E k \in 0..limit :
          /\ k < limit => faults < MaxFaults
          /\ faults' = IF k < limit THEN faults + 1 ELSE faults
          /\ calls' = calls \o
               [i \in 1..(IF k < Len(plan) THEN k + 1 ELSE k) |->
                  Call("delete", plan[i][1], plan[i][2], <<>>, i <= k)]
          /\ target' = [sl \in Slots |->
                          IF \E i \in 1..k : plan[i] = sl THEN Absent ELSE target[sl]]
          /\ pc' = IF k = Len(plan) /\ order.ok THEN "ensureTag" ELSE "crashed"
  /\ UNCHANGED <<sortVars, transVars>>
  /\ UNCHANGED <<validConfigs, tagExists, run, previewShown, proceedImport,
                 proceedDelete, untaggedConfigIds, configToImport, idx,
                 importResults, startTarget>>

AfterTag == IF configToImport = <<>> THEN "done" ELSE "import"

\* importConfigs without the createStatsigTag call
EnsureTagSkipped ==
  /\ pc = "ensureTag"
  /\ pc' = AfterTag
  /\ UNCHANGED <<calls, tagExists, faults>>

\* importConfigs: getStatsigTag, and createStatsigTag when it is absent
EnsureTag ==
  /\ pc = "ensureTag"
  /\ IF tagExists
     THEN /\ pc' = AfterTag
          /\ UNCHANGED <<calls, tagExists, faults>>
     ELSE \E ok \in Answers(faults) :
            /\ calls' = Append(calls, Call("createTag", "tag", LAUNCHDARKLY_IMPORT_TAG, <<>>, ok))
            /\ tagExists' = ok
            /\ faults' = IF ok THEN faults ELSE faults + 1
            /\ pc' = IF ok THEN AfterTag ELSE "crashed"

ImportTag ==
  /\ EnsureTag
  /\ UNCHANGED <<sortVars, transVars>>
  /\ UNCHANGED <<validConfigs, target, run, previewShown, proceedImport,
                 proceedDelete, untaggedConfigIds, configToImport, idx,
                 importResults, startTarget>>

\* tags: [...(config.tags || []), importTag]
RequestTags(config) == Append(config.tags, LAUNCHDARKLY_IMPORT_TAG)

\* the key under which importConfigs files a config's error or notice
configName(config) == IF config.type = "gate" THEN config.id ELSE config.name

\* Record<string, string>: an assignment replaces the key's entry
SetEntry(rec, key, value) ==
  {e \in rec : e[1] # key} \cup {<<key, value>>}

\* one pass of the loop of importConfigs: the create call, for a created
\* gate with overrides the override call, and the bookkeeping
ImportOne ==
  /\ pc = "import"
  /\ LET config == configToImport[idx]
         slot   == <<config.type, config.id>>
     IN \E created \in CreateAnswers(slot, faults) :
          LET injected  == IF ~created /\ ~target[slot].present THEN 1 ELSE 0
              overrides == created /\ config.type = "gate" /\ config.overrides > 0
          IN \E overridden \in (IF overrides THEN Answers(faults + injected) ELSE {TRUE}) :
               /\ calls' = calls
                    \o <<Call("create", config.type, config.id, RequestTags(config), created)>>
                    \o (IF overrides
                        THEN <<Call("override", "gate", config.id, <<>>, overridden)>>
                        ELSE <<>>)
               /\ faults' = faults + injected + (IF overridden THEN 0 ELSE 1)
               /\ target' = IF created
                            THEN [target EXCEPT ![slot] = Stored(RequestTags(config), config.rules)]
                            ELSE target
               /\ importResults' =
                    IF created
                    THEN [importResults EXCEPT
                            !.totalConfigImported = @ + 1,
                            !.noticesByConfigName =
                               IF overridden THEN @
                               ELSE SetEntry(@, configName(config), slot)]
                    ELSE [importResults EXCEPT
                            !.errorsByConfigName = SetEntry(@, configName(config), slot)]
  /\ idx' = idx + 1
  /\ pc' = IF idx = Len(configToImport) THEN "done" ELSE "import"
  /\ UNCHANGED <<sortVars, transVars>>
  /\ UNCHANGED <<validConfigs, tagExists, run, previewShown, proceedImport,
                 proceedDelete, untaggedConfigIds, configToImport, startTarget>>

\* the operator runs the script again on the same LaunchDarkly snapshot
Rerun ==
  /\ pc \in {"done", "crashed"}
  /\ run < MaxRuns
  /\ run' = run + 1
  /\ pc' = "start"
  /\ previewShown' = FALSE
  /\ proceedImport' = "none"
  /\ proceedDelete' = "none"
  /\ calls' = <<>>
  /\ untaggedConfigIds' = <<>>
  /\ configToImport' = <<>>
  /\ idx' = 1
  /\ importResults' = EmptyResults
  /\ startTarget' = target
  /\ UNCHANGED <<sortVars, transVars>>
  /\ UNCHANGED <<validConfigs, target, tagExists, faults>>

Next ==
  \/ ShowPreview
  \/ AnswerImport
  \/ CheckExisting
  \/ AnswerDelete
  \/ DeleteRefused
  \/ DeleteExisting
  \/ ImportTag
  \/ ImportOne
  \/ Rerun

Spec == Init /\ [][Next]_vars

(***************************************************************************)
(* The flag translator (launchdarkly.ts): values and results               *)
(***************************************************************************)
\* an optional field: undefined/null is None, a value v is Some(v)
None == <<>>
Some(v) == <<v>>

\* a JSON value of a clause value list: its typeof and its text, the text
\* a sequence of characters
JsString(s) == [t |-> "string", s |-> s]
JsNumber(s) == [t |-> "number", s |-> s]
JsBoolean(s) == [t |-> "boolean", s |-> s]
JsNull == [t |-> "object", s |-> <<"n", "u", "l", "l">>]

\* a percentage as the exact quotient num / den
Ratio(num, den) == [num |-> num, den |-> den]

\* TransformResult<T>; thrown marks an Error raised instead of a return
Transformed(result) ==
  [thrown |-> FALSE, transformed |-> TRUE, result |-> result, errors |-> <<>>]

NotTransformed(errors) ==
  [thrown |-> FALSE, transformed |-> FALSE, result |-> <<>>, errors |-> errors]

Thrown ==
  [thrown |-> TRUE, transformed |-> FALSE, result |-> <<>>, errors |-> <<>>]

\* obj?.[key] on a plain mapping object
Lookup(obj, key) == IF key \in DOMAIN obj THEN Some(obj[key]) ELSE None

\* !x for an optional string: undefined and the empty string are falsy
Falsy(opt) == opt = None \/ opt[1] = ""

\* args.environmentNameMapping[env] ?? env
MappedEnvironment(env, a) ==
  IF env \in DOMAIN a.environmentNameMapping
    THEN a.environmentNameMapping[env] ELSE env

\* args.onlyEnvironments != null && !args.onlyEnvironments.includes(env)
EnvironmentSkipped(env, a) ==
  a.onlyEnvironments # None /\ env \notin a.onlyEnvironments[1]

\* x.contextKind ?? 'user'
ContextKindOf(x) == IF x.contextKind = None THEN "user" ELSE x.contextKind[1]

\* the concatenation of a sequence of sequences
RECURSIVE Flatten(_)
Flatten(ss) == IF ss = <<>> THEN <<>> ELSE Head(ss) \o Flatten(Tail(ss))

(***************************************************************************)
(* Clauses                                                                 *)
(***************************************************************************)
typeMapping ==
  ("country" :> "country") @@ ("email" :> "email") @@ ("ip" :> "ip_address")
  @@ ("not-segmentMatch" :> "fails_segment")
  @@ ("segmentMatch" :> "passes_segment")

ClauseType(type, field, customID) ==
  [type |-> type, field |-> field, customID |-> customID]

\* the attribute looked up under whatever context kind maps it
CustomFieldOfAnyKind(a, contextKind, attribute) ==
  LET kinds == {k \in DOMAIN a.contextCustomAttributeMapping :
                  attribute \in DOMAIN a.contextCustomAttributeMapping[k]} IN
  IF kinds = {} THEN None
  ELSE Some(a.contextCustomAttributeMapping[CHOOSE k \in kinds : TRUE][attribute])

\* contextCustomAttributeMapping[contextKind]?.[attribute]
CustomFieldOf(a, contextKind, attribute) ==
  LET ofKind == Lookup(a.contextCustomAttributeMapping, contextKind) IN
  IF ofKind = None THEN None ELSE Lookup(ofKind[1], attribute)

transformRuleClauseType(flagKey, clause, a) ==
  LET contextKind == ContextKindOf(clause) IN
  IF clause.attribute = "key"
    THEN IF contextKind = "user"
           THEN Transformed(ClauseType("user_id", None, None))
           ELSE LET unitID == Lookup(a.contextKindToUnitIDMapping, contextKind) IN
                IF Falsy(unitID)
                  THEN NotTransformed(<<[type |-> "unit_id_not_mapped",
                                         contextKind |-> contextKind,
                                         flagKey |-> flagKey]>>)
                  ELSE Transformed(ClauseType("unit_id", None, unitID))
    ELSE IF clause.attribute \in DOMAIN typeMapping
           THEN Transformed(ClauseType(typeMapping[clause.attribute], None, None))
           ELSE LET customField == CustomFieldOf(a, contextKind, clause.attribute) IN
                IF Falsy(customField)
                  THEN NotTransformed(<<[type |-> "custom_attribute_not_mapped",
                                         contextKind |-> contextKind,
                                         attribute |-> clause.attribute,
                                         flagKey |-> flagKey]>>)
                  ELSE Transformed(ClauseType("custom_field", customField, None))

\* the object literal `mapping`, built for the negate flag of the clause
OperatorMappingIgnoringNegate(negate) ==
  ("lessThan" :> Some("lt"))
  @@ ("lessThanOrEqual" :> Some("lte"))
  @@ ("greaterThan" :> Some("gt"))
  @@ ("greaterThanOrEqual" :> Some("gte"))
  @@ ("before" :> Some("before"))
  @@ ("after" :> Some("after"))
  @@ ("in" :> Some("any"))
  @@ ("matches" :> Some("str_matches"))
  @@ ("contains" :> Some("str_contains_any"))
  @@ ("semVerEqual" :> Some("version_eq"))
  @@ ("startsWith" :> Some("str_matches"))
  @@ ("endsWith" :> Some("str_matches"))
  @@ ("segmentMatch" :> None)

OperatorMapping(negate) ==
  ("lessThan" :> Some(IF negate THEN "gte" ELSE "lt"))
  @@ ("lessThanOrEqual" :> Some("lte"))
  @@ ("greaterThan" :> Some(IF negate THEN "lte" ELSE "gt"))
  @@ ("greaterThanOrEqual" :> Some("gte"))
  @@ ("before" :> Some("before"))
  @@ ("after" :> Some("after"))
  @@ ("in" :> Some(IF negate THEN "none" ELSE "any"))
  @@ ("matches" :> Some(IF negate THEN "none" ELSE "str_matches"))
  @@ ("contains" :> Some(IF negate THEN "str_contains_none"
                                   ELSE "str_contains_any"))
  @@ ("semVerEqual" :> Some("version_eq"))
  @@ ("startsWith" :> Some("str_matches"))
  @@ ("endsWith" :> Some("str_matches"))
  @@ ("segmentMatch" :> None)

transformRuleOperator(flagKey, operator, negate) ==
  IF operator \in DOMAIN OperatorMapping(negate)
    THEN Transformed(OperatorMapping(negate)[operator])
    ELSE NotTransformed(<<[type |-> "unsupported_operator",
                           operator |-> operator, flagKey |-> flagKey]>>)

\* the characters /[.*+?^${}()|[\]\\]/ of escapeRegex
RegexSpecial ==
  {".", "*", "+", "?", "^", "$", "{", "}", "(", ")", "|", "[", "]", "\\"}

escapeRegex(str) ==
  Flatten([i \in 1..Len(str) |->
             IF str[i] \in RegexSpecial THEN <<"\\", str[i]>> ELSE <<str[i]>>])

isArrayOfPrimitives(values) ==
  \/ \A i \in 1..Len(values) : values[i].t = "string"
  \/ \A i \in 1..Len(values) : values[i].t = "number"
  \/ \A i \in 1..Len(values) : values[i].t = "boolean"

\* the default branch of the switch, without the coercion of non-strings
ClauseValuesVerbatim(values) == values

\* the default branch of the switch: JSON.stringify of what is neither a
\* string nor a number
ClauseValuesDefault(values) ==
  [i \in 1..Len(values) |->
     IF values[i].t # "string" /\ values[i].t # "number"
       THEN JsString(values[i].s) ELSE values[i]]

transformClauseValuesForOperator(flagKey, operator, values) ==
  IF ~isArrayOfPrimitives(values)
    THEN NotTransformed(<<[type |-> "invalid_clause_values",
                           flagKey |-> flagKey, operator |-> operator,
                           values |-> values]>>)
    ELSE IF operator = "startsWith"
      THEN Transformed([i \in 1..Len(values) |->
                          JsString(<<"^">> \o escapeRegex(values[i].s))])
    ELSE IF operator = "endsWith"
      THEN Transformed([i \in 1..Len(values) |->
                          JsString(escapeRegex(values[i].s) \o <<"$">>)])
    ELSE Transformed(ClauseValuesDefault(values))

\* a StatsigCondition; arr tells an array target value from a scalar one
TargetValue(arr, items) == [arr |-> arr, items |-> items]

Condition(type, field, customID, operator, targetValue) ==
  [type |-> type, field |-> field, customID |-> customID,
   operator |-> operator, targetValue |-> targetValue]

translateRuleClause(flagKey, clause, a) ==
  LET clauseTypeResult == transformRuleClauseType(flagKey, clause, a)
      operatorResult == transformRuleOperator(flagKey, clause.op, clause.negate)
      valuesResult ==
        transformClauseValuesForOperator(flagKey, clause.op, clause.values) IN
  IF \/ ~clauseTypeResult.transformed
     \/ ~operatorResult.transformed
     \/ ~valuesResult.transformed
    THEN NotTransformed(clauseTypeResult.errors \o operatorResult.errors
                        \o valuesResult.errors)
    ELSE Transformed(Condition(clauseTypeResult.result.type,
                               clauseTypeResult.result.field,
                               clauseTypeResult.result.customID,
                               operatorResult.result,
                               Some(TargetValue(TRUE, valuesResult.result))))

(***************************************************************************)
(* Variation values                                                        *)
(***************************************************************************)
\* a JSON value: its type, the text of a primitive, the keys and the member
\* values of an object, the items of an array
Json(t, v, keys, kids) == [t |-> t, v |-> v, keys |-> keys, kids |-> kids]

JsonTrue == Json("boolean", "true", <<>>, <<>>)
JsonFalse == Json("boolean", "false", <<>>, <<>>)
\* value ? a : b
Truthy(value) ==
  /\ value.t # "null"
  /\ ~(value.t = "boolean" /\ value.v = "false")
  /\ ~(value.t = "string" /\ value.v = "")
  /\ ~(value.t = "number" /\ value.v = "0")

RETURN_VALUE_WRAP_ATTRIBUTE == "value"

RECURSIVE jsonContainsNull(_)
jsonContainsNull(obj) ==
  IF obj.t = "null" THEN TRUE
  ELSE IF obj.t \in {"array", "object"}
    THEN \E i \in 1..Len(obj.kids) : jsonContainsNull(obj.kids[i])
  ELSE FALSE

\* typeof value === 'object' alone: an array passes for an object
areVariationValuesObjectsByTypeof(variations) ==
  ~\E i \in 1..Len(variations) :
     variations[i].value.t \notin {"object", "array"}

areVariationValuesObjects(variations) ==
  ~\E i \in 1..Len(variations) : variations[i].value.t # "object"

wrapVariationValues(variation) ==
  [name |-> variation.name,
   value |-> Json("object", "", <<RETURN_VALUE_WRAP_ATTRIBUTE>>,
                  <<variation.value>>)]

(***************************************************************************)
(* Rules                                                                   *)
(***************************************************************************)
MAX_RULE_NAME_LENGTH == 100

capRuleName(ruleName) ==
  IF Len(ruleName) > MAX_RULE_NAME_LENGTH
    THEN SubSeq(ruleName, 1, MAX_RULE_NAME_LENGTH) ELSE ruleName

\* x ?? []
OrEmpty(opt) == IF opt = None THEN <<>> ELSE opt[1]

\* weight / 1000 read with the wrong scale
WeightPercentagePerHundred(weight) == Ratio(weight, 100)

\* weight / 1000
WeightPercentage(weight) == Ratio(weight, 1000)

Percent(n) == Ratio(n, 1)

transformRulePassPercentage(flagKey, rule) ==
  IF rule.rollout # None
    THEN IF rule.rollout[1].variations = <<>>
           THEN Thrown
           ELSE Transformed(WeightPercentage(rule.rollout[1].variations[1].weight))
  ELSE IF rule.variation = Some(0) THEN Transformed(Percent(100))
  ELSE IF rule.variation = Some(1) THEN Transformed(Percent(0))
  ELSE NotTransformed(<<[type |-> "unsupported_pass_percentage",
                         flagKey |-> flagKey]>>)

VariantPercentage(variation, passPercentage) ==
  [variation |-> variation, passPercentage |-> passPercentage]

transformRuleVariantPercentages(flagKey, rule) ==
  IF rule.rollout # None
    THEN Transformed([i \in 1..Len(rule.rollout[1].variations) |->
           VariantPercentage(rule.rollout[1].variations[i].variation,
                             WeightPercentage(rule.rollout[1].variations[i].weight))])
  ELSE IF rule.variation # None
    THEN Transformed(<<VariantPercentage(rule.variation[1], Percent(100))>>)
  ELSE NotTransformed(<<[type |-> "unsupported_pass_percentage",
                         flagKey |-> flagKey]>>)

\* the name of an ordinary rule before capping
ImportRuleName(environmentName, rule, ruleIndex) ==
  "(" \o environmentName \o ") "
  \o (IF rule.description # None /\ rule.description[1] # ""
        THEN rule.description[1] \o " import " \o ToString(ruleIndex + 1)
        ELSE "import " \o ToString(ruleIndex + 1))

\* a StatsigRule
GateRule(name, passPercentage, conditions, environments) ==
  [name |-> name, passPercentage |-> passPercentage,
   conditions |-> conditions, environments |-> environments]

\* a StatsigDynamicConfigRule
DynamicConfigRule(name, conditions, environments, variants) ==
  [name |-> name, conditions |-> conditions, environments |-> environments,
   variants |-> variants]

Variant(name, passPercentage, returnValue) ==
  [name |-> name, passPercentage |-> passPercentage,
   returnValue |-> returnValue]

\* variantPercentages.map(...) over the (wrapped) variations
Variants(variantPercentages, variations) ==
  [i \in 1..Len(variantPercentages) |->
     Variant(variations[variantPercentages[i].variation + 1].name,
             variantPercentages[i].passPercentage,
             variations[variantPercentages[i].variation + 1].value)]

\* the clauses of a rule, each translated
ClauseResults(flagKey, rule, a) ==
  [i \in 1..Len(rule.clauses) |-> translateRuleClause(flagKey, rule.clauses[i], a)]

ResultsOf(results) ==
  LET ok == SelectSeq(results, LAMBDA r : r.transformed) IN
  [i \in 1..Len(ok) |-> ok[i].result]

ErrorsOf(results) == Flatten([i \in 1..Len(results) |-> results[i].errors])

AnyThrown(results) == \E i \in 1..Len(results) : results[i].thrown

\* ruleIndex counts from 0 as in the source
translateLaunchDarklyRule(flagKey, environmentName, rule, ruleIndex, percentageOverride, a) ==
  LET passPercentageResult ==
        IF percentageOverride # None
          THEN Transformed(percentageOverride[1])
          ELSE transformRulePassPercentage(flagKey, rule)
      results == ClauseResults(flagKey, rule, a)
      errors == passPercentageResult.errors \o ErrorsOf(results) IN
  IF passPercentageResult.thrown THEN Thrown
  ELSE IF errors # <<>> THEN NotTransformed(errors)
  ELSE Transformed(GateRule(
         capRuleName(ImportRuleName(environmentName, rule, ruleIndex)),
         passPercentageResult.result, ResultsOf(results),
         <<MappedEnvironment(environmentName, a)>>))

translateLaunchDarklyDynamicConfigRule(flagKey, environmentName, flagEnvironment, ruleIndex, variations, a) ==
  LET rule == OrEmpty(flagEnvironment.rules)[ruleIndex + 1]
      variantPercentagesResult ==
        IF ~flagEnvironment.on
          THEN IF flagEnvironment.offVariation = None
                 THEN NotTransformed(<<[type |-> "unsupported_off_variation",
                                        flagKey |-> flagKey,
                                        flagEnvironmentName |-> environmentName]>>)
                 ELSE Transformed(<<VariantPercentage(
                                      flagEnvironment.offVariation[1],
                                      Percent(100))>>)
          ELSE transformRuleVariantPercentages(flagKey, rule)
      results == ClauseResults(flagKey, rule, a)
      errors == variantPercentagesResult.errors \o ErrorsOf(results) IN
  IF errors # <<>> THEN NotTransformed(errors)
  ELSE Transformed(DynamicConfigRule(
         ImportRuleName(environmentName, rule, ruleIndex),
         ResultsOf(results),
         <<MappedEnvironment(environmentName, a)>>,
         Variants(variantPercentagesResult.result, variations)))

PublicCondition == Condition("public", None, None, None, None)

FallthroughRuleName(environmentName) ==
  "(" \o environmentName \o ") Fall through imported rule"

transformFallthroughRule(flagKey, environmentName, flagEnvironment, a) ==
  LET passPercentageResult ==
        IF ~flagEnvironment.on
          THEN Transformed(IF flagEnvironment.offVariation = Some(0)
                             THEN Percent(100) ELSE Percent(0))
        ELSE IF flagEnvironment.fallthrough # None
          THEN transformRulePassPercentage(flagKey, flagEnvironment.fallthrough[1])
        ELSE Transformed(Percent(0)) IN
  IF passPercentageResult.thrown THEN Thrown
  ELSE IF ~passPercentageResult.transformed THEN passPercentageResult
  ELSE Transformed(GateRule(capRuleName(FallthroughRuleName(environmentName)),
                            passPercentageResult.result, <<PublicCondition>>,
                            <<MappedEnvironment(environmentName, a)>>))

transformFallthroughDynamicConfigRule(flagKey, environmentName, flagEnvironment, variations, a) ==
  IF ~flagEnvironment.on
    THEN IF flagEnvironment.offVariation = None
           THEN NotTransformed(<<[type |-> "unsupported_off_variation",
                                  flagKey |-> flagKey,
                                  flagEnvironmentName |-> environmentName]>>)
           ELSE Transformed(DynamicConfigRule(
                  FallthroughRuleName(environmentName), <<PublicCondition>>,
                  <<MappedEnvironment(environmentName, a)>>,
                  Variants(<<VariantPercentage(flagEnvironment.offVariation[1],
                                               Percent(100))>>, variations)))
  ELSE IF flagEnvironment.fallthrough # None
    THEN LET variantPercentagesResult ==
               transformRuleVariantPercentages(flagKey,
                                               flagEnvironment.fallthrough[1]) IN
         IF ~variantPercentagesResult.transformed
           THEN variantPercentagesResult
           ELSE Transformed(DynamicConfigRule(
                  FallthroughRuleName(environmentName), <<PublicCondition>>,
                  <<MappedEnvironment(environmentName, a)>>,
                  Variants(variantPercentagesResult.result, variations)))
  \* variantPercentages is still undefined: the function throws
  ELSE Thrown

(***************************************************************************)
(* Prerequisites                                                           *)
(***************************************************************************)
\* flagsByKey.get(key): the Map keeps the last flag fetched under a key
FlagsByKeyGet(allFlags, key) ==
  LET at == {i \in 1..Len(allFlags) : allFlags[i].key = key} IN
  IF at = {} THEN None
  ELSE Some(allFlags[CHOOSE i \in at : \A j \in at : j <= i])

\* flag.environments?.[environmentName]
EnvironmentOf(flag, environmentName) ==
  LET at == {i \in 1..Len(flag.environments) :
               flag.environments[i].env = environmentName} IN
  IF at = {} THEN None ELSE Some(flag.environments[CHOOSE i \in at : TRUE].data)

PrerequisiteRuleName(environmentName, prerequisiteFlagKey) ==
  "(" \o environmentName \o ") Imported prerequisite rule "
  \o prerequisiteFlagKey

\* a prerequisite rule: name, conditions, ...offVariationMapping, environments
PrerequisiteRule(name, conditions, offVariation, isFlagBoolean, environments) ==
  IF isFlagBoolean
    THEN GateRule(name,
                  IF Truthy(offVariation.value) THEN Percent(100) ELSE Percent(0),
                  conditions, environments)
    ELSE DynamicConfigRule(name, conditions, environments,
                           <<Variant(offVariation.name, Percent(100),
                                     offVariation.value)>>)

\* the for loop from its i-th prerequisite on, preqRules collected so far
RECURSIVE PrerequisitesFrom(_, _, _, _, _, _, _, _, _)
PrerequisitesFrom(prerequisites, i, preqRules, flagKey, offVariation, isFlagBoolean, flagsByKey, environmentName, a) ==
  IF i > Len(prerequisites) THEN Transformed(preqRules)
  ELSE
    LET prerequisiteFlagKey == prerequisites[i].key
        prerequisiteFlag == FlagsByKeyGet(flagsByKey, prerequisiteFlagKey)
        environments == <<MappedEnvironment(environmentName, a)>>
        ruleName == PrerequisiteRuleName(environmentName, prerequisiteFlagKey) IN
    IF prerequisiteFlag = None
      THEN NotTransformed(<<[type |-> "prerequisite_flag_does_not_exist",
                             prerequisiteFlagKey |-> prerequisiteFlagKey,
                             flagKey |-> flagKey]>>)
    ELSE IF prerequisiteFlag[1].kind # "boolean"
      THEN NotTransformed(<<[type |-> "unsupported_prerequisite_flag_type",
                             prerequisiteFlagKind |-> prerequisiteFlag[1].kind,
                             prerequisiteFlagKey |-> prerequisiteFlagKey,
                             flagKey |-> flagKey]>>)
    ELSE
      LET prerequisiteFlagEnvironment ==
            EnvironmentOf(prerequisiteFlag[1], environmentName) IN
      IF prerequisiteFlagEnvironment = None \/ ~prerequisiteFlagEnvironment[1].on
        THEN Transformed(<<PrerequisiteRule(ruleName, <<PublicCondition>>,
                                            offVariation, isFlagBoolean,
                                            environments)>>)
        ELSE
          LET prerequisiteFlagValue ==
                prerequisiteFlag[1].variations[prerequisites[i].variation + 1].value
              conditionType == IF Truthy(prerequisiteFlagValue)
                                 THEN "fails_gate" ELSE "passes_gate" IN
          PrerequisitesFrom(prerequisites, i + 1,
            Append(preqRules,
                   PrerequisiteRule(ruleName,
                     <<Condition(conditionType, None, None, None,
                                 Some(TargetValue(FALSE, <<prerequisiteFlagKey>>)))>>,
                     offVariation, isFlagBoolean, environments)),
            flagKey, offVariation, isFlagBoolean, flagsByKey, environmentName, a)

transformPrerequisitesRule(flagKey, offVariation, flagEnvironment, isFlagBoolean, flagsByKey, environmentName, a) ==
  PrerequisitesFrom(OrEmpty(flagEnvironment.prerequisites), 1, <<>>, flagKey,
                    offVariation, isFlagBoolean, flagsByKey, environmentName, a)

(***************************************************************************)
(* Flags                                                                   *)
(***************************************************************************)
\* targets.concat(contextTargets ?? []) when targets is a non-empty array,
\* nothing otherwise
OverrideTargets(environmentData) ==
  IF environmentData.targets # None /\ Len(environmentData.targets[1]) > 0
    THEN environmentData.targets[1] \o OrEmpty(environmentData.contextTargets)
    ELSE <<>>

\* the unit id of an individual target
TargetUnitID(overrideTarget, a) ==
  IF ContextKindOf(overrideTarget) = "user" THEN Some("userID")
  ELSE Lookup(a.contextKindToUnitIDMapping, ContextKindOf(overrideTarget))

Override(environment, unitID, passingIDs, failingIDs) ==
  [environment |-> environment, unitID |-> unitID,
   passingIDs |-> passingIDs, failingIDs |-> failingIDs]

\* overrides.find(...) or a fresh Override pushed; then the ids pushed
PushOverride(overrides, overrideTarget, unitID, environment) ==
  LET at == {i \in 1..Len(overrides) :
               /\ overrides[i].unitID = unitID
               /\ overrides[i].environment = environment}
      withOne == IF at = {}
                   THEN Append(overrides, Override(environment, unitID, <<>>, <<>>))
                   ELSE overrides
      k == IF at = {} THEN Len(withOne)
           ELSE CHOOSE i \in at : \A j \in at : i <= j IN
  IF overrideTarget.variation = 0
    THEN [withOne EXCEPT ![k].passingIDs = @ \o overrideTarget.values]
  ELSE IF overrideTarget.variation = 1
    THEN [withOne EXCEPT ![k].failingIDs = @ \o overrideTarget.values]
  ELSE withOne

\* the forEach over the individual targets of a boolean flag
RECURSIVE GateTargetsFrom(_, _, _, _, _, _)
GateTargetsFrom(targets, i, st, flagKey, env, a) ==
  IF i > Len(targets) THEN st
  ELSE
    LET overrideTarget == targets[i]
        unitID == TargetUnitID(overrideTarget, a)
        next ==
          IF Len(overrideTarget.values) = 0 THEN st
          ELSE IF Falsy(unitID)
            THEN [st EXCEPT !.errors =
                    Append(@, [type |-> "unit_id_not_mapped",
                               contextKind |-> ContextKindOf(overrideTarget),
                               flagKey |-> flagKey])]
          ELSE [st EXCEPT !.overrides =
                  PushOverride(@, overrideTarget, unitID[1],
                               MappedEnvironment(env, a))] IN
    GateTargetsFrom(targets, i + 1, next, flagKey, env, a)

\* results pushed to rules when transformed, to errors otherwise
Collect(st, results) ==
  [st EXCEPT !.rules = @ \o ResultsOf(results),
             !.errors = @ \o ErrorsOf(results),
             !.thrown = @ \/ AnyThrown(results)]

\* a prerequisite result carries a list of rules
CollectList(st, result) ==
  [st EXCEPT !.rules = @ \o (IF result.transformed THEN result.result ELSE <<>>),
             !.errors = @ \o result.errors,
             !.thrown = @ \/ result.thrown]

\* the environment never overrides the percentage of its rules
percentageOverrideNever(environmentData) == None

percentageOverride(environmentData) ==
  IF ~environmentData.on
    THEN Some(IF environmentData.offVariation = Some(0)
                THEN Percent(100) ELSE Percent(0))
    ELSE None

\* the body of the forEach over the environments of a boolean flag
GateEnvironment(st, flag, env, environmentData, flagsByKey, a) ==
  IF EnvironmentSkipped(env, a) THEN st
  ELSE
    LET afterTargets ==
          GateTargetsFrom(OverrideTargets(environmentData), 1, st,
                          flag.key, env, a) IN
    IF environmentData.offVariation = None THEN afterTargets
    ELSE
      LET offVariation == flag.variations[environmentData.offVariation[1] + 1]
          preqRules ==
            transformPrerequisitesRule(flag.key, offVariation, environmentData,
                                       TRUE, flagsByKey, env, a)
          rules == OrEmpty(environmentData.rules)
          ruleResults ==
            [i \in 1..Len(rules) |->
               translateLaunchDarklyRule(flag.key, env, rules[i], i - 1,
                                         percentageOverride(environmentData), a)]
          fallthroughRule ==
            transformFallthroughRule(flag.key, env, environmentData, a) IN
      Collect(Collect(CollectList(afterTargets, preqRules), ruleResults),
              <<fallthroughRule>>)

RECURSIVE GateEnvironmentsFrom(_, _, _, _, _)
GateEnvironmentsFrom(flag, i, st, flagsByKey, a) ==
  IF i > Len(flag.environments) THEN st
  ELSE GateEnvironmentsFrom(flag, i + 1,
         GateEnvironment(st, flag, flag.environments[i].env,
                         flag.environments[i].data, flagsByKey, a),
         flagsByKey, a)

\* a StatsigConfigWrapper, flattened as the importer reads it
GateWrapper(flag, rules, overrides) ==
  [type |-> "gate", id |-> flag.key, name |-> flag.name, tags |-> flag.tags,
   rules |-> rules, overrides |-> overrides]

DynamicConfigWrapper(flag, rules) ==
  [type |-> "dynamic_config", id |-> flag.key, name |-> flag.name,
   tags |-> flag.tags, rules |-> rules, overrides |-> <<>>]

WithNotices(result, notices) ==
  [thrown |-> result.thrown, transformed |-> result.transformed,
   result |-> result.result, errors |-> result.errors, notices |-> notices]

transformFlagToGate(flag, flagsByKey, a) ==
  LET st == GateEnvironmentsFrom(flag, 1,
              [overrides |-> <<>>, rules |-> <<>>, errors |-> <<>>,
               thrown |-> FALSE], flagsByKey, a) IN
  IF st.thrown THEN WithNotices(Thrown, <<>>)
  ELSE IF Len(st.errors) > 0 THEN WithNotices(NotTransformed(st.errors), <<>>)
  ELSE WithNotices(Transformed(GateWrapper(flag, st.rules, st.overrides)), <<>>)

\* the forEach over the individual targets of a multivariate flag
RECURSIVE DynamicConfigTargetsFrom(_, _, _, _, _, _, _)
DynamicConfigTargetsFrom(targets, i, st, flag, env, variations, a) ==
  IF i > Len(targets) THEN st
  ELSE
    LET overrideTarget == targets[i]
        contextKind == ContextKindOf(overrideTarget)
        unitID == TargetUnitID(overrideTarget, a)
        values == Some(TargetValue(TRUE, overrideTarget.values))
        rule ==
          DynamicConfigRule(
            "(" \o env \o ") " \o flag.key \o " targets " \o ToString(i),
            <<IF contextKind = "user"
                THEN Condition("user_id", None, None, Some("any"), values)
                ELSE Condition("unit_id", None, unitID, Some("any"), values)>>,
            <<MappedEnvironment(env, a)>>,
            <<Variant(variations[overrideTarget.variation + 1].name,
                      Percent(100),
                      variations[overrideTarget.variation + 1].value)>>)
        next ==
          IF Len(overrideTarget.values) = 0 THEN st
          ELSE IF Falsy(unitID)
            THEN [st EXCEPT !.errors =
                    Append(@, [type |-> "unit_id_not_mapped",
                               contextKind |-> contextKind,
                               flagKey |-> flag.key])]
          ELSE [st EXCEPT !.rules = Append(@, rule)] IN
    DynamicConfigTargetsFrom(targets, i + 1, next, flag, env, variations, a)

\* the body of the forEach over the environments of a multivariate flag
DynamicConfigEnvironment(st, flag, env, environmentData, variations, flagsByKey, a) ==
  IF EnvironmentSkipped(env, a) THEN st
  ELSE
    LET afterTargets ==
          DynamicConfigTargetsFrom(OverrideTargets(environmentData), 1, st,
                                   flag, env, variations, a) IN
    IF environmentData.offVariation = None THEN afterTargets
    ELSE
      LET offVariation == variations[environmentData.offVariation[1] + 1]
          preqRules ==
            transformPrerequisitesRule(flag.key, offVariation, environmentData,
                                       FALSE, flagsByKey, env, a)
          rules == OrEmpty(environmentData.rules)
          ruleResults ==
            [i \in 1..Len(rules) |->
               translateLaunchDarklyDynamicConfigRule(flag.key, env,
                 environmentData, i - 1, variations, a)]
          fallthroughRule ==
            transformFallthroughDynamicConfigRule(flag.key, env,
                                                  environmentData,
                                                  variations, a) IN
      Collect(Collect(CollectList(afterTargets, preqRules), ruleResults),
              <<fallthroughRule>>)

RECURSIVE DynamicConfigEnvironmentsFrom(_, _, _, _, _, _)
DynamicConfigEnvironmentsFrom(flag, i, st, variations, flagsByKey, a) ==
  IF i > Len(flag.environments) THEN st
  ELSE DynamicConfigEnvironmentsFrom(flag, i + 1,
         DynamicConfigEnvironment(st, flag, flag.environments[i].env,
                                  flag.environments[i].data, variations,
                                  flagsByKey, a),
         variations, flagsByKey, a)

\* the variations a dynamic config is built from, wrapped when needed
WrappedVariations(flag) ==
  IF areVariationValuesObjects(flag.variations)
    THEN flag.variations
    ELSE [i \in 1..Len(flag.variations) |->
            wrapVariationValues(flag.variations[i])]

transformFlagToDynamicConfig(flag, flagsByKey, a) ==
  LET variations == WrappedVariations(flag)
      variationsWrapped == ~areVariationValuesObjects(flag.variations)
      nullErrors ==
        IF \E i \in 1..Len(variations) : jsonContainsNull(variations[i].value)
          THEN <<[type |-> "return_value_contains_null", flagKey |-> flag.key]>>
          ELSE <<>>
      st == DynamicConfigEnvironmentsFrom(flag, 1,
              [rules |-> <<>>, errors |-> nullErrors, thrown |-> FALSE],
              variations, flagsByKey, a) IN
  IF st.thrown THEN WithNotices(Thrown, <<>>)
  ELSE IF Len(st.errors) > 0 THEN WithNotices(NotTransformed(st.errors), <<>>)
  ELSE WithNotices(Transformed(DynamicConfigWrapper(flag, st.rules)),
                   IF variationsWrapped
                     THEN <<[type |-> "return_value_wrapped",
                             flagKey |-> flag.key]>>
                     ELSE <<>>)

transformFlagToConfig(flag, flagsByKey, a) ==
  IF flag.kind = "boolean" THEN transformFlagToGate(flag, flagsByKey, a)
  ELSE IF flag.kind = "multivariate"
    THEN transformFlagToDynamicConfig(flag, flagsByKey, a)
  ELSE WithNotices(NotTransformed(<<[type |-> "unsupported_flag_kind",
                                     flagKey |-> flag.key,
                                     flagKind |-> flag.kind]>>), <<>>)

\* byName[item.flagKey] = byName[item.flagKey] || []; then push, per item
RECURSIVE PushByFlagKey(_, _)
PushByFlagKey(byName, items) ==
  IF items = <<>> THEN byName
  ELSE LET k == Head(items).flagKey
           pushed == IF k \in DOMAIN byName
                       THEN [byName EXCEPT ![k] = Append(@, Head(items))]
                       ELSE byName @@ (k :> <<Head(items)>>) IN
       PushByFlagKey(pushed, Tail(items))

\* the keys of the fetched segments
SegmentKeys(byEnv) ==
  UNION {{byEnv[e].segments[s].key : s \in 1..Len(byEnv[e].segments)} :
         e \in 1..Len(byEnv)}

\* one pass of flags.forEach in getLaunchDarklyConfigs; an Error thrown by
\* the transformer leaves the loop and the call
TransformFlag ==
  /\ tPc = "run"
  /\ flagIdx <= Len(flags)
  /\ LET transformResult == transformFlagToConfig(flags[flagIdx], flags, args) IN
       IF transformResult.thrown
         THEN /\ tPc' = "thrown"
              /\ UNCHANGED <<flagIdx, configTransformResult>>
         ELSE /\ configTransformResult' =
                   IF transformResult.transformed
                     THEN [configTransformResult EXCEPT
                             !.validConfigs = Append(@, transformResult.result),
                             !.noticesByConfigName =
                               PushByFlagKey(@, transformResult.notices)]
                     ELSE [configTransformResult EXCEPT
                             !.errorsByConfigName =
                               PushByFlagKey(@, transformResult.errors)]
              /\ flagIdx' = flagIdx + 1
              /\ tPc' = IF flagIdx < Len(flags) THEN "run"
                        ELSE IF SegmentKeys(ldSegmentsByEnv) = {} THEN "done"
                        ELSE "segments"
  /\ UNCHANGED <<flags, args, ldSegmentsByEnv, segmentIdx>>
  /\ UNCHANGED <<sortVars, runVars>>

NextTransform == TransformFlag

(***************************************************************************)
(* Inputs of the translator specifications                                 *)
(***************************************************************************)
\* the command-line arguments the translator reads (cli.ts)
Args(unitIDs, customFields, only) ==
  [contextKindToUnitIDMapping |-> unitIDs,
   contextCustomAttributeMapping |-> customFields,
   environmentNameMapping |-> ("prod" :> "production"),
   onlyEnvironments |-> only]

\* no --context-kind-to-unit-id, no --context-attribute-to-custom-field
NoMapping == <<>>

\* the mappings a run is given: none; organization mapped to a unit id and
\* its location to a custom field; location mapped for user contexts only
MappingArgs ==
  {Args(NoMapping, NoMapping, None),
   Args("organization" :> "orgID",
        "organization" :> ("location" :> "org_location"), None),
   Args(NoMapping, "user" :> ("location" :> "user_location"), None)}

\* a LaunchDarklyFlag and the parts of it
Variation(name, value) == [name |-> name, value |-> value]

Clause(attribute, contextKind, op, values, negate) ==
  [attribute |-> attribute, contextKind |-> contextKind, op |-> op,
   values |-> values, negate |-> negate]

Rollout(variations) == [variations |-> variations]

WeightedVariation(variation, weight) ==
  [variation |-> variation, weight |-> weight]

FlagRule(description, clauses, variation, rollout) ==
  [description |-> description, clauses |-> clauses,
   variation |-> variation, rollout |-> rollout]

FlagFallthrough(variation, rollout) ==
  [variation |-> variation, rollout |-> rollout]

OverrideTarget(values, variation, contextKind) ==
  [values |-> values, variation |-> variation, contextKind |-> contextKind]

Prerequisite(key, variation) == [key |-> key, variation |-> variation]

EnvironmentData(on, targets, contextTargets, offVariation, rules, fallthrough, prerequisites) ==
  [on |-> on, targets |-> targets, contextTargets |-> contextTargets,
   offVariation |-> offVariation, rules |-> rules,
   fallthrough |-> fallthrough, prerequisites |-> prerequisites]

EnvironmentEntry(env, data) == [env |-> env, data |-> data]

Flag(kind, key, variations, environments) ==
  [kind |-> kind, key |-> key, name |-> key \o " flag", tags |-> <<>>,
   variations |-> variations, environments |-> environments]

BooleanVariations ==
  <<Variation("True", JsonTrue), Variation("False", JsonFalse)>>

JsonObject(v) == Json("object", v, <<"k">>, <<Json("string", v, <<>>, <<>>)>>)

ObjectVariations ==
  <<Variation("A", JsonObject("a")), Variation("B", JsonObject("b")),
    Variation("C", JsonObject("c"))>>

StringVariations ==
  <<Variation("A", Json("string", "a", <<>>, <<>>)),
    Variation("B", Json("string", "b", <<>>, <<>>)),
    Variation("C", Json("string", "c", <<>>, <<>>))>>

VariationsOf(kind) ==
  IF kind = "boolean" THEN {BooleanVariations}
  ELSE {ObjectVariations, StringVariations}

\* an on environment serving variation 1 to everyone
PlainEnvironment ==
  EnvironmentData(TRUE, None, None, Some(1), Some(<<>>),
                  Some(FlagFallthrough(Some(1), None)), None)

PlainFlag(key) ==
  Flag("boolean", key, BooleanVariations,
       <<EnvironmentEntry("prod", PlainEnvironment)>>)

\* ---- clauses ----
ClauseAttributes == {"key", "country", "ip", "segmentMatch", "location"}

ClauseContextKinds == {None, Some("organization")}

\* the operators of the table and two LaunchDarkly operators outside it
ClauseOperators ==
  DOMAIN OperatorMapping(FALSE) \cup {"semVerLessThan", "semVerGreaterThan"}

ClauseValueLists ==
  {<<>>,
   <<JsString(<<"a">>)>>,
   <<JsString(<<"a", ".", "b">>), JsString(<<"c">>)>>,
   <<JsNumber(<<"1">>), JsNumber(<<"2">>)>>,
   <<JsBoolean(<<"t", "r", "u", "e">>)>>,
   <<JsBoolean(<<"t", "r", "u", "e">>), JsBoolean(<<"f", "a", "l", "s", "e">>)>>,
   <<JsString(<<"a">>), JsNumber(<<"1">>)>>,
   <<JsNumber(<<"1">>), JsBoolean(<<"t", "r", "u", "e">>)>>,
   <<JsNull>>}

Clauses ==
  {Clause(at, ck, op, vs, ng) :
     at \in ClauseAttributes, ck \in ClauseContextKinds,
     op \in ClauseOperators, vs \in ClauseValueLists, ng \in BOOLEAN}

\* a clause every mapping translates
CountryClause ==
  Clause("country", None, "in", <<JsString(<<"N", "Z">>)>>, FALSE)

\* a flag of one on environment whose one rule holds CountryClause and clause
ClauseFlag(kind, variations, clause) ==
  Flag(kind, "F", variations,
       <<EnvironmentEntry("prod",
           EnvironmentData(TRUE, None, None, Some(1),
             Some(<<FlagRule(Some("beta"), <<CountryClause, clause>>,
                             Some(0), None)>>),
             Some(FlagFallthrough(Some(1), None)), None))>>)

\* no segment is fetched
NoSegments ==
  /\ ldSegmentsByEnv = <<>>
  /\ segmentIdx = 1

TransformStart ==
  /\ flagIdx = 1
  /\ configTransformResult = EmptyTransformResult
  /\ tPc = IF flags = <<>> THEN "done" ELSE "run"
  /\ NoSegments
  /\ SortIdle
  /\ RunIdle

InitClause ==
  /\ \E kind \in {"boolean", "multivariate"}, clause \in Clauses :
       flags = <<ClauseFlag(kind,
                            IF kind = "boolean" THEN BooleanVariations
                                                ELSE ObjectVariations,
                            clause),
                 PlainFlag("G")>>
  /\ args \in MappingArgs
  /\ TransformStart

SpecClause == InitClause /\ [][NextTransform]_vars

\* ---- selectors, environments on and off ----
\* weights on the 100,000 scale: full rollouts and one that is not
RolloutsOf(kind) ==
  {Rollout(<<WeightedVariation(0, 60000), WeightedVariation(1, 40000)>>),
   Rollout(<<WeightedVariation(1, 87655), WeightedVariation(0, 12345)>>),
   Rollout(<<WeightedVariation(0, 50000)>>)}
  \cup (IF kind = "boolean" THEN {}
        ELSE {Rollout(<<WeightedVariation(2, 33334), WeightedVariation(0, 33333),
                        WeightedVariation(1, 33333)>>)})

VariationIndices(kind) == IF kind = "boolean" THEN {0, 1} ELSE {0, 1, 2}

\* what a rule or the fallthrough selects: a fixed variation, a rollout, or
\* neither
Selectors(kind) ==
  {FlagFallthrough(Some(v), None) : v \in VariationIndices(kind)}
  \cup {FlagFallthrough(None, Some(r)) : r \in RolloutsOf(kind)}
  \cup {FlagFallthrough(None, None)}

SelectorFlag(kind, variations, on, offVariation, rules, fallthrough) ==
  Flag(kind, "F", variations,
       <<EnvironmentEntry("prod",
           EnvironmentData(on, None, None, Some(offVariation),
             Some([i \in 1..Len(rules) |->
                     FlagRule(None, <<CountryClause>>,
                              rules[i].variation, rules[i].rollout)]),
             fallthrough, None))>>)

SelectorFlags ==
  UNION {
    {SelectorFlag(kind, variations, on, off, rules, fallthrough) :
       variations \in VariationsOf(kind), on \in BOOLEAN,
       off \in VariationIndices(kind),
       rules \in {<<>>} \cup {<<s>> : s \in Selectors(kind)},
       fallthrough \in {None} \cup {Some(s) : s \in Selectors(kind)}} :
    kind \in {"boolean", "multivariate"}}
  \* a flag of a kind the translator does not support
  \cup {Flag("json", "F", StringVariations,
             <<EnvironmentEntry("prod", PlainEnvironment)>>)}

InitFlag ==
  /\ \E f \in SelectorFlags :
       flags \in {<<f, PlainFlag("G")>>, <<PlainFlag("G"), f>>}
  /\ args = Args(NoMapping, NoMapping, None)
  /\ TransformStart

SpecFlag == InitFlag /\ [][NextTransform]_vars

\* ---- prerequisites ----
PrerequisiteKeys == {"P", "Q", "missing"}

PrerequisiteLists ==
  LET one == {Prerequisite(k, v) : k \in PrerequisiteKeys, v \in {0, 1}} IN
  {<<>>} \cup {<<p>> : p \in one} \cup {<<p, q>> : p \in one, q \in one}

\* the flag that declares the prerequisites
DependentFlag(kind, variations, offVariation, prerequisites) ==
  Flag(kind, "F", variations,
       <<EnvironmentEntry("prod",
           EnvironmentData(TRUE, None, None, Some(offVariation), Some(<<>>),
                           Some(FlagFallthrough(Some(0), None)),
                           Some(prerequisites)))>>)

\* a prerequisite flag: on or off in prod, or without that environment
PrerequisiteFlag(kind, key, variations, state) ==
  Flag(kind, key, variations,
       <<EnvironmentEntry(IF state = "elsewhere" THEN "test" ELSE "prod",
           EnvironmentData(state # "off", None, None, Some(1), Some(<<>>),
                           Some(FlagFallthrough(Some(0), None)), None))>>)

InitPrerequisite ==
  /\ \E kind \in {"boolean", "multivariate"}, off \in {0, 1},
        prerequisites \in PrerequisiteLists,
        pState \in {"on", "off", "elsewhere"},
        qKind \in {"boolean", "multivariate"}, qState \in {"on", "off"} :
       \E variations \in VariationsOf(kind), qVariations \in VariationsOf(qKind) :
          flags = <<DependentFlag(kind, variations, off, prerequisites),
                    PrerequisiteFlag("boolean", "P", BooleanVariations, pState),
                    PrerequisiteFlag(qKind, "Q", qVariations, qState)>>
  /\ args = Args(NoMapping, NoMapping, None)
  /\ TransformStart

SpecPrerequisite == InitPrerequisite /\ [][NextTransform]_vars

\* ---- individual targets ----
UserTargets ==
  {OverrideTarget(vs, v, None) :
     vs \in {<<>>, <<"u1">>, <<"u2", "u3">>}, v \in {0, 1}}

\* the arguments map organization to a unit id and device to none
ContextTargets ==
  {OverrideTarget(vs, v, Some(k)) :
     vs \in {<<>>, <<"o1">>}, v \in {0, 1}, k \in {"organization", "device"}}

\* absent, or a list of at most two
UpToTwo(S) ==
  {None} \cup {Some(<<>>)} \cup {Some(<<x>>) : x \in S}
  \cup {Some(<<x, y>>) : x \in S, y \in S}

TargetsEnvironment(targets, contextTargets) ==
  EnvironmentData(TRUE, targets, contextTargets, Some(1), Some(<<>>),
                  Some(FlagFallthrough(Some(1), None)), None)

\* a second environment with one user target and one organization target
TestEnvironment ==
  TargetsEnvironment(Some(<<OverrideTarget(<<"u9">>, 0, None)>>),
                     Some(<<OverrideTarget(<<"o9">>, 1, Some("organization"))>>))

InitOverrides ==
  /\ \E targets \in UpToTwo(UserTargets),
        contextTargets \in UpToTwo(ContextTargets),
        more \in {<<>>, <<EnvironmentEntry("test", TestEnvironment)>>} :
       flags = <<Flag("boolean", "F", BooleanVariations,
                      <<EnvironmentEntry("prod",
                          TargetsEnvironment(targets, contextTargets))>>
                      \o more),
                 PlainFlag("G")>>
  /\ args = Args("organization" :> "orgID", NoMapping, None)
  /\ TransformStart

SpecOverrides == InitOverrides /\ [][NextTransform]_vars


\* ---- variation values ----
JsonNull == Json("null", "null", <<>>, <<>>)

\* objects, primitives and an array without null; null, and null inside an
\* object, inside a nested object and inside an array
VariationValues ==
  {JsonObject("a"), JsonObject("b"),
   Json("string", "red", <<>>, <<>>), Json("number", "0", <<>>, <<>>),
   JsonFalse,
   Json("array", "", <<>>, <<Json("string", "a", <<>>, <<>>)>>),
   JsonNull,
   Json("object", "", <<"k">>, <<JsonNull>>),
   Json("object", "", <<"k">>, <<Json("object", "", <<"k">>, <<JsonNull>>)>>),
   Json("array", "", <<>>, <<JsonNull>>)}

\* a multivariate flag of two variations: its rule serves B, its fallthrough
\* (when it has one) serves A, and an off environment serves B
VariationsFlag(valueA, valueB, on, fallthrough) ==
  Flag("multivariate", "F",
       <<Variation("A", valueA), Variation("B", valueB)>>,
       <<EnvironmentEntry("prod",
           EnvironmentData(on, None, None, Some(1),
             Some(<<FlagRule(None, <<CountryClause>>, Some(1), None)>>),
             fallthrough, None))>>)

InitVariations ==
  /\ \E valueA \in VariationValues, valueB \in VariationValues,
        on \in BOOLEAN,
        fallthrough \in {None, Some(FlagFallthrough(Some(0), None))} :
       LET f == VariationsFlag(valueA, valueB, on, fallthrough) IN
       flags \in {<<f, PlainFlag("G")>>, <<PlainFlag("G"), f>>}
  /\ args = Args(NoMapping, NoMapping, None)
  /\ TransformStart

SpecVariations == InitVariations /\ [][NextTransform]_vars

(***************************************************************************)
(* The segment translator (launchdarkly.ts)                                *)
(***************************************************************************)
\* a LaunchDarklySegment, as one environment lists it
Segment(key, rules, included, excluded, includedContexts, excludedContexts, unbounded) ==
  [key |-> key, name |-> key \o " segment", rules |-> rules,
   included |-> included, excluded |-> excluded,
   includedContexts |-> includedContexts,
   excludedContexts |-> excludedContexts, unbounded |-> unbounded]

\* an entry of includedContexts or excludedContexts
SegmentContext(contextKind, values) ==
  [contextKind |-> contextKind, values |-> values]

\* ldSegmentsGroupedByEnv after one more segment of env: the group whose
\* first segment has the key takes it under env, a new group otherwise
GroupSegment(groups, env, ldSegment) ==
  LET at == {g \in 1..Len(groups) : groups[g][1].segment.key = ldSegment.key}
      entry == [env |-> env, segment |-> ldSegment] IN
  IF at = {} THEN Append(groups, <<entry>>)
  ELSE LET g == CHOOSE x \in at : \A y \in at : x <= y
           had == {n \in 1..Len(groups[g]) : groups[g][n].env = env} IN
       IF had = {} THEN [groups EXCEPT ![g] = Append(@, entry)]
       ELSE [groups EXCEPT ![g][CHOOSE n \in had : TRUE] = entry]

RECURSIVE GroupSegmentsFrom(_, _, _, _)
GroupSegmentsFrom(byEnv, e, s, groups) ==
  IF e > Len(byEnv) THEN groups
  ELSE IF s > Len(byEnv[e].segments)
    THEN GroupSegmentsFrom(byEnv, e + 1, 1, groups)
  ELSE GroupSegmentsFrom(byEnv, e, s + 1,
         GroupSegment(groups, byEnv[e].env, byEnv[e].segments[s]))

\* `(${env}) Included ${context.contextKind} IDs`
IncludedContextRuleName(env, context) ==
  "(" \o env \o ") Included "
  \o (IF context.contextKind = None THEN "null" ELSE context.contextKind[1])
  \o " IDs"

\* the rules one included-context entry gives: none when it has no values
IncludedContextRules(env, context, a) ==
  IF context.values = None THEN <<>>
  ELSE <<GateRule(IncludedContextRuleName(env, context), Percent(100),
           <<IF Falsy(context.contextKind) \/ context.contextKind[1] = "user"
               THEN Condition("user_id", None, None, Some("any"),
                              Some(TargetValue(TRUE, context.values[1])))
               ELSE Condition("unit_id", None,
                              Lookup(a.contextKindToUnitIDMapping,
                                     context.contextKind[1]),
                              Some("any"),
                              Some(TargetValue(TRUE, context.values[1])))>>,
           <<MappedEnvironment(env, a)>>)>>

\* one pass of Object.entries(ldSegmentByEnv).forEach in transformSegment
SegmentEnvironmentRules(key, env, ldSegment, a) ==
  LET included ==
        IF ldSegment.included # None /\ Len(ldSegment.included[1]) > 0
          THEN <<GateRule("(" \o env \o ") Included user IDs", Percent(100),
                   <<Condition("user_id", None, None, Some("any"),
                               Some(TargetValue(TRUE, ldSegment.included[1])))>>,
                   <<MappedEnvironment(env, a)>>)>>
          ELSE <<>>
      contexts == OrEmpty(ldSegment.includedContexts)
      ruleResults ==
        [k \in 1..Len(ldSegment.rules) |->
           translateLaunchDarklyRule(key, env, ldSegment.rules[k], k - 1,
                                     Some(Percent(100)), a)] IN
  included
  \o Flatten([c \in 1..Len(contexts) |->
                IncludedContextRules(env, contexts[c], a)])
  \o ResultsOf(ruleResults)

\* a StatsigSegment inside its StatsigConfigWrapper
SegmentWrapper(key, name, rules) ==
  [type |-> "segment", id |-> key, name |-> name, tags |-> <<>>,
   segmentType |-> "rule_based", rules |-> rules, overrides |-> <<>>]

\* both kinds of exclusion count only when one environment has both
SegmentHasExclusionsInOneEnvironment(ldSegmentByEnv) ==
  \E n \in 1..Len(ldSegmentByEnv) :
    /\ Len(OrEmpty(ldSegmentByEnv[n].segment.excluded)) > 0
    /\ Len(OrEmpty(ldSegmentByEnv[n].segment.excludedContexts)) > 0

\* some environment excludes ids and some environment excludes contexts
SegmentHasExclusions(ldSegmentByEnv) ==
  /\ \E n \in 1..Len(ldSegmentByEnv) :
       Len(OrEmpty(ldSegmentByEnv[n].segment.excluded)) > 0
  /\ \E n \in 1..Len(ldSegmentByEnv) :
       Len(OrEmpty(ldSegmentByEnv[n].segment.excludedContexts)) > 0

transformSegment(ldSegmentByEnv, a) ==
  LET key == ldSegmentByEnv[1].segment.key
      name == ldSegmentByEnv[1].segment.name
      envs == 1..Len(ldSegmentByEnv) IN
  IF \E n \in envs : ldSegmentByEnv[n].segment.unbounded
    THEN NotTransformed(<<[type |-> "unsupported_segment_type",
                           flagKey |-> key]>>)
  ELSE IF SegmentHasExclusions(ldSegmentByEnv)
    THEN NotTransformed(<<[type |-> "segment_has_exclusions",
                           flagKey |-> key]>>)
  ELSE Transformed(SegmentWrapper(key, name,
         Flatten([n \in 1..Len(ldSegmentByEnv) |->
                    SegmentEnvironmentRules(key, ldSegmentByEnv[n].env,
                                            ldSegmentByEnv[n].segment, a)])))

transformAllSegments(byEnv, a) ==
  LET ldSegmentsGroupedByEnv == GroupSegmentsFrom(byEnv, 1, 1, <<>>) IN
  [g \in 1..Len(ldSegmentsGroupedByEnv) |->
     transformSegment(ldSegmentsGroupedByEnv[g], a)]

\* one pass of the loop over segmentResults in getLaunchDarklyConfigs
TransformSegment ==
  /\ tPc = "segments"
  /\ LET segmentResults == transformAllSegments(ldSegmentsByEnv, args)
         segmentResult == segmentResults[segmentIdx] IN
       /\ configTransformResult' =
            IF segmentResult.transformed
              THEN [configTransformResult EXCEPT
                      !.validConfigs = Append(@, segmentResult.result)]
              ELSE [configTransformResult EXCEPT
                      !.errorsByConfigName =
                        PushByFlagKey(@, segmentResult.errors)]
       /\ tPc' = IF segmentIdx = Len(segmentResults) THEN "done"
                                                      ELSE "segments"
  /\ segmentIdx' = segmentIdx + 1
  /\ UNCHANGED <<flags, args, flagIdx, ldSegmentsByEnv>>
  /\ UNCHANGED <<sortVars, runVars>>

NextConfigs == TransformFlag \/ TransformSegment

\* ---- segments ----
UserIDs == <<JsString(<<"u", "1">>), JsString(<<"u", "2">>)>>

\* a rule every mapping translates, and one whose operator has no counterpart
CountryRule == FlagRule(Some("beta"), <<CountryClause>>, None, None)

UntranslatableRule ==
  FlagRule(None, <<Clause("country", None, "semVerLessThan",
                          <<JsString(<<"1">>)>>, FALSE)>>, None, None)

SegmentRuleLists ==
  {<<>>, <<CountryRule>>, <<UntranslatableRule>>,
   <<UntranslatableRule, CountryRule>>}

\* includedContexts: absent, empty, one group of a kind the mapping may
\* know, a group without kind next to one of a kind no mapping knows, and a
\* group without values
IncludedContextLists ==
  {None, Some(<<>>),
   Some(<<SegmentContext(Some("organization"), Some(UserIDs))>>),
   Some(<<SegmentContext(None, Some(UserIDs)),
          SegmentContext(Some("device"), Some(UserIDs))>>),
   Some(<<SegmentContext(Some("organization"), None)>>)}

\* the segment S as prod lists it
ProdSegments ==
  {Segment("S", rules, included, excluded, includedContexts,
           excludedContexts, unbounded) :
     rules \in SegmentRuleLists,
     included \in {None, Some(<<>>), Some(UserIDs)},
     excluded \in {None, Some(UserIDs)},
     includedContexts \in IncludedContextLists,
     excludedContexts \in
       {None, Some(<<SegmentContext(Some("organization"), Some(UserIDs))>>)},
     unbounded \in BOOLEAN}

\* the segment S as test lists it, when it does
TestSegments ==
  {Segment("S", <<>>, Some(UserIDs), None, None, None, FALSE),
   Segment("S", <<>>, None, None, None, None, TRUE),
   Segment("S", <<>>, None, Some(UserIDs), None, None, FALSE),
   Segment("S", <<>>, None, None, None,
           Some(<<SegmentContext(Some("organization"), Some(UserIDs))>>),
           FALSE)}

\* a second segment, of included ids only
PlainSegment(key) == Segment(key, <<>>, Some(UserIDs), None, None, None, FALSE)

SegmentsOf(env, segments) == [env |-> env, segments |-> segments]

InitSegments ==
  /\ flags = <<PlainFlag("G")>>
  /\ args \in {Args(NoMapping, NoMapping, None),
               Args("organization" :> "orgID", NoMapping, None)}
  /\ \E prod \in ProdSegments :
       \E test \in {<<>>} \cup {<<s>> : s \in TestSegments} :
         ldSegmentsByEnv =
           <<SegmentsOf("prod", <<prod, PlainSegment("T")>>),
             SegmentsOf("test", test \o <<PlainSegment("T")>>)>>
  /\ flagIdx = 1
  /\ configTransformResult = EmptyTransformResult
  /\ tPc = "run"
  /\ segmentIdx = 1
  /\ SortIdle
  /\ RunIdle

SpecSegments == InitSegments /\ [][NextConfigs]_vars

\* ---- references to other configs ----
\* a clause on membership of segment S, under either attribute name
SegmentClause(attribute, negate) ==
  Clause(attribute, None, "segmentMatch", <<JsString(<<"S">>)>>, negate)

\* the flag F: on in prod, its rule holding clause, with prerequisites
ReferringFlag(kind, clause, prerequisites) ==
  Flag(kind, "F",
       IF kind = "boolean" THEN BooleanVariations ELSE ObjectVariations,
       <<EnvironmentEntry("prod",
           EnvironmentData(TRUE, None, None, Some(1),
             Some(<<FlagRule(None, <<clause>>, Some(0), None)>>),
             Some(FlagFallthrough(Some(1), None)), Some(prerequisites)))>>)

\* the boolean flag P, on in prod, with one rule
ReferredFlag(rule) ==
  Flag("boolean", "P", BooleanVariations,
       <<EnvironmentEntry("prod",
           EnvironmentData(TRUE, None, None, Some(1), Some(<<rule>>),
                           Some(FlagFallthrough(Some(1), None)), None))>>)

InitReferences ==
  /\ \E kind \in {"boolean", "multivariate"},
        clause \in {CountryClause} \cup
                   {SegmentClause(at, ng) :
                      at \in {"segmentMatch", "not-segmentMatch"},
                      ng \in BOOLEAN},
        prerequisites \in {<<>>, <<Prerequisite("P", 0)>>,
                           <<Prerequisite("P", 1)>>},
        rule \in {FlagRule(None, <<CountryClause>>, Some(0), None),
                  FlagRule(None, UntranslatableRule.clauses, Some(0), None)} :
       LET f == ReferringFlag(kind, clause, prerequisites)
           p == ReferredFlag(rule) IN
       flags \in {<<f, p>>, <<p, f>>}
  /\ args = Args(NoMapping, NoMapping, None)
  /\ \E segments \in {<<>>, <<PlainSegment("S")>>,
                      <<Segment("S", <<>>, Some(UserIDs), None, None, None,
                                TRUE)>>} :
       ldSegmentsByEnv = <<SegmentsOf("prod", segments \o <<PlainSegment("T")>>)>>
  /\ flagIdx = 1
  /\ configTransformResult = EmptyTransformResult
  /\ tPc = "run"
  /\ segmentIdx = 1
  /\ SortIdle
  /\ RunIdle

SpecReferences == InitReferences /\ [][NextConfigs]_vars

\* ---- names ----
\* a rule description, an environment name and a flag key of 101 characters
LongDescription ==
  "ddddddddddddddddddddddddddddddddddddddddddddddddddddddddddddddddddddddddddddddddddddddddddddddddddddd"

LongEnvironment ==
  "eeeeeeeeeeeeeeeeeeeeeeeeeeeeeeeeeeeeeeeeeeeeeeeeeeeeeeeeeeeeeeeeeeeeeeeeeeeeeeeeeeeeeeeeeeeeeeeeeeeee"

LongKey ==
  "KKKKKKKKKKKKKKKKKKKKKKKKKKKKKKKKKKKKKKKKKKKKKKKKKKKKKKKKKKKKKKKKKKKKKKKKKKKKKKKKKKKKKKKKKKKKKKKKKKKKK"

\* the descriptions of the rules of a flag: none, short ones, long ones,
\* and two rules that share their description
DescriptionLists ==
  {<<None>>, <<None, None>>, <<Some("beta")>>, <<Some("beta"), Some("beta")>>,
   <<Some(LongDescription)>>, <<Some(LongDescription), Some(LongDescription)>>}

\* the flag whose rules are named: on in env, with individual targets
NamedFlag(kind, key, env, descriptions, prerequisites, targets) ==
  Flag(kind, key,
       IF kind = "boolean" THEN BooleanVariations ELSE ObjectVariations,
       <<EnvironmentEntry(env,
           EnvironmentData(TRUE, targets, None, Some(1),
             Some([i \in 1..Len(descriptions) |->
                     FlagRule(descriptions[i], <<CountryClause>>, Some(0), None)]),
             Some(FlagFallthrough(Some(1), None)), Some(prerequisites)))>>)

\* the segment S as env lists it, with included ids and included contexts
NamedSegment(includedContexts) ==
  Segment("S", <<CountryRule>>, Some(UserIDs), None, includedContexts, None,
          FALSE)

InitNames ==
  /\ \E kind \in {"boolean", "multivariate"}, key \in {"F", LongKey},
        env \in {"prod", LongEnvironment},
        descriptions \in DescriptionLists,
        prerequisites \in {<<>>, <<Prerequisite("P", 0)>>,
                           <<Prerequisite("P", 0), Prerequisite("P", 1)>>},
        targets \in {None, Some(<<OverrideTarget(<<"u1">>, 0, None)>>)},
        includedContexts \in
          {None,
           Some(<<SegmentContext(Some("user"), Some(UserIDs))>>),
           Some(<<SegmentContext(Some("organization"), Some(UserIDs)),
                  SegmentContext(Some("organization"), Some(UserIDs))>>)} :
       /\ flags = <<NamedFlag(kind, key, env, descriptions, prerequisites,
                              targets),
                    Flag("boolean", "P", BooleanVariations,
                         <<EnvironmentEntry(env, PlainEnvironment)>>)>>
       /\ ldSegmentsByEnv =
            <<SegmentsOf(env, <<NamedSegment(includedContexts)>>)>>
  /\ args = Args("organization" :> "orgID", NoMapping, None)
  /\ flagIdx = 1
  /\ configTransformResult = EmptyTransformResult
  /\ tPc = "run"
  /\ segmentIdx = 1
  /\ SortIdle
  /\ RunIdle

SpecNames == InitNames /\ [][NextConfigs]_vars

\* ---- environments and the order of their rules ----
\* an environment of the ordered flag
OrderedEnvironment(on, offVariation, targets, prerequisites, rules) ==
  EnvironmentData(on, targets, None, offVariation, Some(rules),
                  Some(FlagFallthrough(Some(0), None)), Some(prerequisites))

\* prod: on or off, with or without a declared off variation, individual
\* targets, a prerequisite and up to two rules
ProdEnvironments ==
  {OrderedEnvironment(on, offVariation, targets, prerequisites, rules) :
     on \in BOOLEAN, offVariation \in {None, Some(1)},
     targets \in {None, Some(<<OverrideTarget(<<"u1">>, 0, None),
                                OverrideTarget(<<"u2">>, 1, None)>>)},
     prerequisites \in {<<>>, <<Prerequisite("P", 0)>>},
     rules \in {<<>>, <<CountryRule>>,
                <<CountryRule, FlagRule(None, <<CountryClause>>, Some(1), None)>>}}

\* test: on, with one rule, with or without a declared off variation
TestEnvironments ==
  {OrderedEnvironment(TRUE, offVariation, None, <<>>,
                      <<FlagRule(None, <<CountryClause>>, Some(0), None)>>) :
     offVariation \in {None, Some(1)}}

InitOrder ==
  /\ \E kind \in {"boolean", "multivariate"}, prod \in ProdEnvironments,
        test \in TestEnvironments :
       flags = <<Flag(kind, "F",
                      IF kind = "boolean" THEN BooleanVariations
                                          ELSE ObjectVariations,
                      <<EnvironmentEntry("prod", prod),
                        EnvironmentEntry("test", test)>>),
                 Flag("boolean", "P", BooleanVariations,
                      <<EnvironmentEntry("prod", PlainEnvironment),
                        EnvironmentEntry("test", PlainEnvironment)>>)>>
  /\ args \in {Args(NoMapping, NoMapping, None),
               Args(NoMapping, NoMapping, Some({"prod"}))}
  /\ TransformStart

SpecOrder == InitOrder /\ [][NextTransform]_vars

\* ---- segments that refer to segments ----
\* the segment T, whose last rule holds a clause on membership of S
ReferringSegment(rules, included) ==
  Segment("T", rules, included, None, None, None, FALSE)

\* S and T in either order, S accepted or rejected as unbounded, T's
\* membership clause under either attribute name and either negate flag
InitSegmentOrder ==
  /\ flags = <<PlainFlag("G")>>
  /\ args = Args(NoMapping, NoMapping, None)
  /\ \E env \in {"prod", "test"},
        attribute \in {"segmentMatch", "not-segmentMatch"},
        negate \in BOOLEAN,
        leading \in {<<>>, <<CountryRule>>},
        included \in {None, Some(UserIDs)},
        unbounded \in BOOLEAN :
       LET s == Segment("S", <<>>, Some(UserIDs), None, None, None, unbounded)
           t == ReferringSegment(
                  leading \o <<FlagRule(None,
                                        <<SegmentClause(attribute, negate)>>,
                                        None, None)>>,
                  included) IN
       \E segments \in {<<s, t>>, <<t, s>>, <<s, t, PlainSegment("U")>>} :
         ldSegmentsByEnv = <<SegmentsOf(env, segments)>>
  /\ flagIdx = 1
  /\ configTransformResult = EmptyTransformResult
  /\ tPc = "run"
  /\ segmentIdx = 1
  /\ SortIdle
  /\ RunIdle

SpecSegmentOrder == InitSegmentOrder /\ [][NextConfigs]_vars
(***************************************************************************)
(* Resolver claims                                                         *)
(***************************************************************************)
\* config a has a rule condition of the sorted kind whose target value is
\* the identifier of config b
RefersTo(a, b, configType) ==
  \E cond \in AllConditions(a) :
     /\ cond.type \in RefTypes(configType)
     /\ ~cond.arr
     /\ cond.v = b.id

\* in-batch reference edges <<referencing id, referenced id>>
RefEdges(configs, configType) ==
  { e \in IdsOf(configs) \X IdsOf(configs) :
      \E i, j \in 1..Len(configs) :
         /\ configs[i].id = e[1]
         /\ configs[j].id = e[2]
         /\ RefersTo(configs[i], configs[j], configType) }

\* a path of at most n edges of E leads from a to b
RECURSIVE HasPath(_, _, _, _)
HasPath(E, a, b, n) ==
  /\ n > 0
  /\ \/ <<a, b>> \in E
     \/ \E e \in E : e[1] = a /\ HasPath(E, e[2], b, n - 1)

Acyclic(configs, configType) ==
  LET E == RefEdges(configs, configType)
      n == Cardinality(IdsOf(configs))
  IN \A a \in IdsOf(configs) : ~HasPath(E, a, a, n)

IdSeq(configs) == [i \in 1..Len(configs) |-> configs[i].id]

IsChainABC(configs, configType) ==
  /\ IdsOf(configs) = {"A", "B", "C"}
  /\ RefEdges(configs, configType) = {<<"B", "A">>, <<"C", "B">>}

\* C1: on a list with distinct ids and acyclic in-batch references the
\* resolver returns a permutation of its input in which every config that
\* references another in-batch config comes before the config it
\* references; the chain A <- B <- C comes out as [C, B, A]; references to
\* ids outside the batch constrain nothing (the result is still complete).
C1_DependentBeforeIndependent ==
  (sPc # "loop" /\ IsDistinct(IdSeq(sConfigs)) /\ Acyclic(sConfigs, sType)) =>
     /\ sPc = "done"
     /\ Len(sResult) = Len(sConfigs)
     /\ Range(sResult) = Range(sConfigs)
     /\ \A i, j \in 1..Len(sResult) :
          RefersTo(sResult[i], sResult[j], sType) => i < j
     /\ IsChainABC(sConfigs, sType) => IdSeq(sResult) = <<"C", "B", "A">>

C1_Witness ==
  /\ sPc = "done"
  /\ IdSeq(sConfigs) = <<"A", "B", "C">>
  /\ IsChainABC(sConfigs, sType)
  /\ IdSeq(sResult) = <<"C", "B", "A">>
  /\ \E cond \in AllConditions(sConfigs[1]) : cond.v = OutsideId

\* the resolver has returned a complete order or thrown, as the references demand
SortOutcome ==
  /\ sPc \in {"done", "error"}
  /\ sPc = "done" <=> Acyclic(sConfigs, sType)
  /\ sPc = "done" => /\ Len(sResult) = Len(sConfigs)
                     /\ Range(sResult) = Range(sConfigs)
                     /\ sRemaining = <<>>

\* C2: the resolver terminates on every input; it ends with a complete
\* order exactly when the in-batch references are acyclic and with the
\* circular-dependency error exactly when they contain a cycle (A <-> B,
\* or a config referencing itself), never with a partial order.
C2_TerminatesOrFailsFast == <>SortOutcome

C2_Witness ==
  /\ sPc = "error"
  /\ RefEdges(sConfigs, sType) = {<<"A", "B">>, <<"B", "A">>, <<"C", "C">>}
  /\ sResult = <<>>

(***************************************************************************)
(* Run claims                                                              *)
(***************************************************************************)
CallsOf(op) == {i \in 1..Len(calls) : calls[i].op = op}

SlotOf(call) == <<call.kind, call.id>>

\* the config of the batch a create call is for
ConfigAt(slot) ==
  CHOOSE c \in Range(validConfigs) : c.type = slot[1] /\ c.id = slot[2]

\* a rule with these conditions references the object in `slot`
ConditionsReference(conds, slot) ==
  \E cond \in conds :
     /\ cond.v = slot[2]
     /\ \/ cond.type \in RefTypes("gate") /\ slot[1] = "gate"
        \/ cond.type \in RefTypes("segment") /\ slot[1] = "segment"

KindRank(kind) ==
  CASE kind = "segment" -> 1
    [] kind = "gate" -> 2
    [] kind = "dynamic_config" -> 3

\* C3: the create calls of a run come in the order segments, gates,
\* dynamic configs, and the create call of a config referenced by a rule of
\* another config of the batch comes before that config's create call.
C3_CreateIndependentFirst ==
  \A i, j \in CallsOf("create") :
     /\ i < j => KindRank(calls[i].kind) <= KindRank(calls[j].kind)
     /\ ConditionsReference(AllConditions(ConfigAt(SlotOf(calls[i]))), SlotOf(calls[j]))
          => j < i

BatchSlots == {<<validConfigs[i].type, validConfigs[i].id>> : i \in 1..Len(validConfigs)}

\* the objects the project held at the start of the run under a name of
\* the batch
ExistingOfBatch ==
  {sl \in Slots : startTarget[sl].present /\ sl[2] \in Range(validConfigNames)}

\* C4: a delete call for an existing config comes only after the delete
\* calls of all existing configs of the batch whose rules reference it
\* (gate -> gate, gate or dynamic config -> segment, dynamic config ->
\* gate).
C4_DeleteDependentFirst ==
  \A j \in CallsOf("delete") :
     \A sl \in ExistingOfBatch :
        ConditionsReference(AllConditions(startTarget[sl]), SlotOf(calls[j]))
          => \E i \in 1..(j - 1) : calls[i].op = "delete" /\ SlotOf(calls[i]) = sl

\* the delete step of the run is over (it was entered and did not throw)
DeleteStepDone ==
  proceedDelete = "yes" /\ pc \in {"ensureTag", "import", "done"}

\* C5: no delete call is issued for an object of the project that lacks
\* the import tag; such an object is left as it was, and when it has the
\* kind and identifier of a config of the batch its identifier is in the
\* conflict list once the delete step is over.
C5_UntaggedUntouchedAndReported ==
  \A sl \in Slots :
     (startTarget[sl].present /\ ~HasImportTag(startTarget[sl])) =>
        /\ \A i \in CallsOf("delete") : SlotOf(calls[i]) # sl
        /\ target[sl] = startTarget[sl]
        /\ (sl \in BatchSlots /\ DeleteStepDone) => sl[2] \in Range(untaggedConfigIds)

\* the batch is {X, Y}, X exists untagged and Y exists tagged (each under
\* the kind the batch gives it) and nothing else of the batch exists
OneUntaggedOneTagged ==
  /\ Len(validConfigs) = 2
  /\ \E x, y \in Range(validConfigs) :
       /\ x.id = "X" /\ y.id = "Y"
       /\ ExistingOfBatch = {<<x.type, "X">>, <<y.type, "Y">>}
       /\ ~HasImportTag(startTarget[<<x.type, "X">>])
       /\ HasImportTag(startTarget[<<y.type, "Y">>])

\* C6: with X existing untagged and Y existing tagged, a confirmed run
\* without call failures deletes and recreates Y, and excludes and reports
\* X only.
C6_ConflictBlocksOneIdentifier ==
  (OneUntaggedOneTagged /\ pc = "done" /\ proceedDelete = "yes" /\ faults = 0) =>
     /\ untaggedConfigIds = <<"X">>
     /\ \A i \in CallsOf("create") : calls[i].id # "X"
     /\ \E i \in CallsOf("delete") : calls[i].id = "Y" /\ calls[i].ok
     /\ \E i \in CallsOf("create") : calls[i].id = "Y" /\ calls[i].ok

\* the run is a second run on the project as the first run left it: the
\* objects under the names of the batch are the configs of the batch, all
\* of them carry the import tag, both prompts were confirmed, no call failed
RerunOnPopulated ==
  /\ run = 2
  /\ pc = "done"
  /\ faults = 0
  /\ proceedImport = "yes"
  /\ proceedDelete = "yes"
  /\ ExistingOfBatch = BatchSlots
  /\ \A sl \in ExistingOfBatch : HasImportTag(startTarget[sl])

\* C7: a re-run on a populated project deletes each config of the batch
\* once and recreates it, reports no error and leaves the project with the
\* objects it had, for every batch, a flag and a segment sharing a key
\* included.
C7_RerunIdempotent ==
  RerunOnPopulated =>
     /\ importResults.errorsByConfigName = {}
     /\ \A sl \in BatchSlots :
          /\ Cardinality({i \in CallsOf("delete") : SlotOf(calls[i]) = sl}) = 1
          /\ \E i \in CallsOf("delete"), j \in CallsOf("create") :
                /\ i < j
                /\ SlotOf(calls[i]) = sl /\ SlotOf(calls[j]) = sl
                /\ calls[i].ok /\ calls[j].ok
     /\ {sl \in Slots : target[sl].present} = {sl \in Slots : startTarget[sl].present}

\* C8: while configs are being created the import tag exists in the
\* project; the tag is created at most once, before the first create
\* call; every create request carries the import
\* tag and every tag of the config it creates.
C8_ImportTagFirstAndOnEveryCreate ==
  /\ (pc = "import" \/ CallsOf("create") # {}) => tagExists
  /\ \A i \in CallsOf("createTag") :
        \A j \in CallsOf("create") \cup CallsOf("createTag") : i <= j
  /\ \A i \in CallsOf("create") :
        /\ LAUNCHDARKLY_IMPORT_TAG \in Range(calls[i].tags)
        /\ Range(ConfigAt(SlotOf(calls[i])).tags) \subseteq Range(calls[i].tags)

C8_Witness ==
  /\ pc = "done"
  /\ \E i \in CallsOf("createTag"), j \in CallsOf("create") :
        /\ i < j
        /\ calls[i].ok /\ calls[j].ok
        /\ calls[j].tags = <<"ld", LAUNCHDARKLY_IMPORT_TAG>>

\* C9: a mutating call is issued only after the preview was shown and the
\* import prompt answered yes, a delete call only after the deletion
\* prompt was answered yes as well; a no to either prompt ends the run and
\* the run has issued no mutating call.
C9_NoMutationBeforeConsent ==
  /\ calls # <<>> => (previewShown /\ proceedImport = "yes")
  /\ CallsOf("delete") # {} => proceedDelete = "yes"
  /\ proceedImport # "none" => previewShown
  /\ proceedDelete # "none" => proceedImport = "yes"
  /\ (proceedImport = "no" \/ proceedDelete = "no") => (pc = "exited" /\ calls = <<>>)
  /\ pc \in {"delete", "ensureTag", "import", "done", "crashed"} =>
        (proceedImport = "yes" /\ proceedDelete # "no")

C9_Witness ==
  /\ pc = "done"
  /\ proceedImport = "yes"
  /\ proceedDelete = "yes"
  /\ \E i \in CallsOf("delete"), j \in CallsOf("create") : i < j /\ calls[i].ok /\ calls[j].ok

\* C10: every failed create call has an entry under its config's
\* identifier in the errors, and the loop still issues the create call of
\* every config of the batch, in order; an override call comes right
\* after the successful create call of its gate and nowhere else; a gate
\* whose override call failed is counted as imported and has a notice.
C10_FailuresAreRecordedNotFatal ==
  /\ \A i \in CallsOf("create") :
        ~calls[i].ok => \E e \in importResults.errorsByConfigName : e[1] = calls[i].id
  /\ pc = "done" =>
        LET created == SelectSeq(calls, LAMBDA c : c.op = "create") IN
        /\ Len(created) = Len(configToImport)
        /\ \A k \in 1..Len(created) :
              <<created[k].kind, created[k].id>> = <<configToImport[k].type, configToImport[k].id>>
  /\ \A i \in CallsOf("override") :
        /\ i > 1
        /\ calls[i - 1].op = "create" /\ calls[i - 1].ok
        /\ SlotOf(calls[i - 1]) = <<"gate", calls[i].id>>
        /\ ~calls[i].ok => \E e \in importResults.noticesByConfigName : e[1] = calls[i].id
  /\ importResults.totalConfigImported =
        Cardinality({i \in CallsOf("create") : calls[i].ok})

(***************************************************************************)
(* Translator claims                                                       *)
(***************************************************************************)
\* the flags flags.forEach has passed
ProcessedFlags == 1..(flagIdx - 1)

ErrorsFor(key) ==
  IF key \in DOMAIN configTransformResult.errorsByConfigName
    THEN configTransformResult.errorsByConfigName[key] ELSE <<>>

EmittedConfigs(key) ==
  {c \in Range(configTransformResult.validConfigs) : c.id = key}

Emitted(key) == EmittedConfigs(key) # {}

HasError(key, type) ==
  \E n \in 1..Len(ErrorsFor(key)) : ErrorsFor(key)[n].type = type

\* <<i, e, k, j>>: clause j of rule k of environment e of processed flag i
ClauseSites ==
  UNION {UNION {UNION {
    {<<i, e, k, j>> :
       j \in 1..Len(OrEmpty(flags[i].environments[e].data.rules)[k].clauses)} :
    k \in 1..Len(OrEmpty(flags[i].environments[e].data.rules))} :
    e \in 1..Len(flags[i].environments)} :
    i \in ProcessedFlags}

SiteFlag(s) == flags[s[1]]
SiteEnv(s) == flags[s[1]].environments[s[2]]
SiteRule(s) == OrEmpty(SiteEnv(s).data.rules)[s[3]]
SiteClause(s) == SiteRule(s).clauses[s[4]]

\* the conditions emitted for the rule of a clause site, when its flag was
\* emitted: the rule is found by the name it is imported under
SiteConditions(s) ==
  UNION {{r.conditions : r \in {r \in Range(c.rules) :
             r.name = capRuleName(ImportRuleName(SiteEnv(s).env, SiteRule(s),
                                                 s[3] - 1))}} :
         c \in EmittedConfigs(SiteFlag(s).key)}

\* the percentage p is the number n
IsPercent(p, n) == p.num = n * p.den

\* the value a dynamic config returns for a variation: the value itself when
\* every variation of the flag is an object, {value: <it>} otherwise
ReturnValueOf(flag, index) ==
  IF \A n \in 1..Len(flag.variations) : flag.variations[n].value.t = "object"
    THEN flag.variations[index + 1].value
    ELSE Json("object", "", <<"value">>, <<flag.variations[index + 1].value>>)

\* the configs emitted under a key, in order
EmittedSeq(key) ==
  SelectSeq(configTransformResult.validConfigs, LAMBDA c : c.id = key)

\* every processed flag gave one config or a non-empty error list, not both
OneConfigOrErrors ==
  \A i \in ProcessedFlags :
    \/ Len(EmittedSeq(flags[i].key)) = 1 /\ ErrorsFor(flags[i].key) = <<>>
    \/ Len(EmittedSeq(flags[i].key)) = 0 /\ ErrorsFor(flags[i].key) # <<>>

\* C11: the flag transformer never throws: every fetched flag, an on
\* environment without fallthrough included, gives either one config or a
\* non-empty error list, a flag with an error contributes no config, and
\* every other flag of the batch is still transformed.
C11_TransformNeverThrows ==
  /\ tPc # "thrown"
  /\ OneConfigOrErrors
  /\ tPc = "done" => ProcessedFlags = 1..Len(flags)

\* the fetched flags a key names
FlagsNamed(key) == {flags[n] : n \in {n \in 1..Len(flags) : flags[n].key = key}}

\* <<i, e, j>>: prerequisite j of environment e of processed flag i
PrerequisiteSites ==
  UNION {UNION {
    {<<i, e, j>> :
       j \in 1..Len(OrEmpty(flags[i].environments[e].data.prerequisites))} :
    e \in 1..Len(flags[i].environments)} :
    i \in ProcessedFlags}

SitePrerequisite(s) ==
  OrEmpty(flags[s[1]].environments[s[2]].data.prerequisites)[s[3]]

\* C12: a flag one of whose prerequisites names a key absent from the fetched
\* flags is rejected with prerequisite_flag_does_not_exist, and a flag one of
\* whose prerequisites names a multivariate flag is rejected with
\* unsupported_prerequisite_flag_type, whatever its other prerequisites are
\* and wherever in the list the prerequisite stands.
C12_BadPrerequisiteRejects ==
  \A s \in PrerequisiteSites :
    LET key == SitePrerequisite(s).key
        flagKey == flags[s[1]].key IN
    /\ FlagsNamed(key) = {} =>
         /\ ~Emitted(flagKey)
         /\ \E n \in 1..Len(ErrorsFor(flagKey)) :
              /\ ErrorsFor(flagKey)[n].type = "prerequisite_flag_does_not_exist"
              /\ ErrorsFor(flagKey)[n].prerequisiteFlagKey = key
    /\ (\E f \in FlagsNamed(key) : f.kind = "multivariate") =>
         /\ ~Emitted(flagKey)
         /\ \E n \in 1..Len(ErrorsFor(flagKey)) :
              /\ ErrorsFor(flagKey)[n].type = "unsupported_prerequisite_flag_type"
              /\ ErrorsFor(flagKey)[n].prerequisiteFlagKey = key

\* the narrower statement: a flag with such a prerequisite is not emitted
C12_BadPrerequisiteNotEmitted ==
  \A s \in PrerequisiteSites :
    (\/ FlagsNamed(SitePrerequisite(s).key) = {}
     \/ \E f \in FlagsNamed(SitePrerequisite(s).key) : f.kind = "multivariate")
      => ~Emitted(flags[s[1]].key)

\* the prerequisite flag is on in the environment
PrerequisiteOn(key, env) ==
  \E f \in FlagsNamed(key) : \E n \in 1..Len(f.environments) :
    f.environments[n].env = env /\ f.environments[n].data.on

\* the required variation is the prerequisite flag's true variation
RequiresTrue(prerequisite) ==
  \E f \in FlagsNamed(prerequisite.key) :
    f.variations[prerequisite.variation + 1].value = JsonTrue

\* the rule serves the off-variation of the flag in the environment
ServesOffVariation(rule, flag, data) ==
  IF flag.kind = "boolean"
    THEN IsPercent(rule.passPercentage,
                   IF flag.variations[data.offVariation[1] + 1].value = JsonTrue
                     THEN 100 ELSE 0)
    ELSE /\ Len(rule.variants) = 1
         /\ rule.variants[1].name = flag.variations[data.offVariation[1] + 1].name
         /\ rule.variants[1].returnValue = ReturnValueOf(flag, data.offVariation[1])
         /\ IsPercent(rule.variants[1].passPercentage, 100)

\* the rule is the one the claim describes for the prerequisite
IsPrerequisiteRule(rule, prerequisite, flag, entry) ==
  /\ Len(rule.conditions) = 1
  /\ rule.environments = <<MappedEnvironment(entry.env, args)>>
  /\ ServesOffVariation(rule, flag, entry.data)
  /\ IF PrerequisiteOn(prerequisite.key, entry.env)
       THEN /\ rule.conditions[1].type =
                 (IF RequiresTrue(prerequisite) THEN "fails_gate"
                                                ELSE "passes_gate")
            /\ rule.conditions[1].targetValue =
                 Some(TargetValue(FALSE, <<prerequisite.key>>))
       ELSE rule.conditions[1].type = "public"

\* every prerequisite of the environment names a fetched boolean flag
AllPrerequisitesBoolean(data) ==
  \A j \in 1..Len(OrEmpty(data.prerequisites)) :
    /\ FlagsNamed(OrEmpty(data.prerequisites)[j].key) # {}
    /\ \A f \in FlagsNamed(OrEmpty(data.prerequisites)[j].key) :
         f.kind = "boolean"

\* C13: an environment whose n prerequisites all name fetched boolean flags
\* yields n prerequisite rules, one per prerequisite and in their order:
\* unconditional when the prerequisite flag is off there, conditioned on
\* fails_gate / passes_gate of the prerequisite key when it is on, and
\* serving the flag's off-variation either way.
C13_OneRulePerPrerequisite ==
  \A i \in ProcessedFlags : \A e \in 1..Len(flags[i].environments) :
    LET entry == flags[i].environments[e]
        prerequisites == OrEmpty(entry.data.prerequisites) IN
    AllPrerequisitesBoolean(entry.data) =>
      /\ Emitted(flags[i].key)
      /\ \A config \in EmittedConfigs(flags[i].key) :
           /\ Len(config.rules) =
                Len(prerequisites) + Len(OrEmpty(entry.data.rules)) + 1
           /\ \A j \in 1..Len(prerequisites) :
                IsPrerequisiteRule(config.rules[j], prerequisites[j],
                                   flags[i], entry)

\* the narrower statement: as C13 when every prerequisite flag is on
C13_WhenAllOn ==
  \A i \in ProcessedFlags : \A e \in 1..Len(flags[i].environments) :
    LET entry == flags[i].environments[e]
        prerequisites == OrEmpty(entry.data.prerequisites) IN
    (/\ AllPrerequisitesBoolean(entry.data)
     /\ \A j \in 1..Len(prerequisites) :
          PrerequisiteOn(prerequisites[j].key, entry.env)) =>
      /\ Emitted(flags[i].key)
      /\ \A config \in EmittedConfigs(flags[i].key) :
           /\ Len(config.rules) =
                Len(prerequisites) + Len(OrEmpty(entry.data.rules)) + 1
           /\ \A j \in 1..Len(prerequisites) :
                IsPrerequisiteRule(config.rules[j], prerequisites[j],
                                   flags[i], entry)

\* processed boolean flags with an off environment, as <<i, e>>
OffBooleanSites ==
  {s \in UNION {{<<i, e>> : e \in 1..Len(flags[i].environments)} :
                i \in ProcessedFlags} :
     /\ flags[s[1]].kind = "boolean"
     /\ ~flags[s[1]].environments[s[2]].data.on}

\* the rules of a config scoped to an environment that are ordinary or
\* fallthrough rules: all but the prerequisite rules
OrdinaryAndFallthrough(config, env) ==
  SelectSeq(config.rules,
            LAMBDA r : /\ r.environments = <<MappedEnvironment(env, args)>>
                       /\ \A n \in 1..Len(r.conditions) :
                            r.conditions[n].type \notin {"passes_gate",
                                                         "fails_gate"})

\* C14: in an off environment of a boolean flag every ordinary rule and the
\* fallthrough rule is emitted, whatever it selects, with pass percentage 100
\* when the off-variation index is 0 and with 0 otherwise.
C14_OffEnvironmentServesOffVariation ==
  \A s \in OffBooleanSites :
    LET flag == flags[s[1]]
        entry == flag.environments[s[2]]
        expected == IF entry.data.offVariation = Some(0) THEN 100 ELSE 0 IN
    /\ Emitted(flag.key)
    /\ \A config \in EmittedConfigs(flag.key) :
         LET rules == OrdinaryAndFallthrough(config, entry.env) IN
         /\ Len(rules) = Len(OrEmpty(entry.data.rules)) + 1
         /\ \A n \in 1..Len(rules) : IsPercent(rules[n].passPercentage, expected)

\* an off environment with off-variation 0 whose rule selects variation 1 and
\* whose fallthrough declares a rollout
C14_Witness ==
  \E s \in OffBooleanSites :
    LET data == flags[s[1]].environments[s[2]].data IN
    /\ data.offVariation = Some(0)
    /\ Len(OrEmpty(data.rules)) = 1
    /\ OrEmpty(data.rules)[1].variation = Some(1)
    /\ data.fallthrough # None
    /\ data.fallthrough[1].rollout # None
    /\ Emitted(flags[s[1]].key)

RECURSIVE Gcd(_, _)
Gcd(a, b) == IF b = 0 THEN a ELSE Gcd(b, a % b)

\* the sum of two percentages, in lowest terms
RatioSum(p, q) ==
  LET num == p.num * q.den + q.num * p.den
      den == p.den * q.den
      g == Gcd(num, den) IN
  Ratio(num \div g, den \div g)

RECURSIVE SumOfPercentages(_)
SumOfPercentages(variants) ==
  IF variants = <<>> THEN Ratio(0, 1)
  ELSE RatioSum(Head(variants).passPercentage, SumOfPercentages(Tail(variants)))

RECURSIVE SumOfWeights(_)
SumOfWeights(variations) ==
  IF variations = <<>> THEN 0
  ELSE Head(variations).weight + SumOfWeights(Tail(variations))

\* the variants of rule are those of the rollout: one per weighted
\* variation, in order
VariantsFollowRollout(flag, rule, rollout) ==
  /\ Len(rule.variants) = Len(rollout.variations)
  /\ \A n \in 1..Len(rollout.variations) :
       LET wv == rollout.variations[n]
           variant == rule.variants[n] IN
       /\ variant.passPercentage.num * 1000
            = wv.weight * variant.passPercentage.den
       /\ variant.name = flag.variations[wv.variation + 1].name
       /\ variant.returnValue = ReturnValueOf(flag, wv.variation)
  /\ SumOfWeights(rollout.variations) = 100000 =>
       IsPercent(SumOfPercentages(rule.variants), 100)

\* processed multivariate flags emitted with an on environment, as <<i, e>>
OnMultivariateSites ==
  {s \in UNION {{<<i, e>> : e \in 1..Len(flags[i].environments)} :
                i \in ProcessedFlags} :
     /\ flags[s[1]].kind = "multivariate"
     /\ flags[s[1]].environments[s[2]].data.on
     /\ Emitted(flags[s[1]].key)}

TargetEntries(data) == OrEmpty(data.targets) \o OrEmpty(data.contextTargets)

\* the unit id type of an entry, None when the arguments do not map it
UnitIDType(entry) ==
  IF ContextKindOf(entry) = "user" THEN Some("userID")
  ELSE IF ContextKindOf(entry) \in DOMAIN args.contextKindToUnitIDMapping
    THEN Some(args.contextKindToUnitIDMapping[ContextKindOf(entry)])
    ELSE None

\* C16: in every emitted boolean flag, every individual-target entry with a
\* non-empty id list and a resolvable unit id type has all its ids in the one
\* Override of (unit id type, mapped environment), in passingIDs for
\* variation 0 and in failingIDs otherwise, and no two Overrides share a
\* (unit id type, environment) pair.
C16_TargetsBecomeOverrides ==
  \A i \in ProcessedFlags : \A config \in EmittedConfigs(flags[i].key) :
    flags[i].kind = "boolean" =>
      /\ \A m, n \in 1..Len(config.overrides) :
           (/\ config.overrides[m].unitID = config.overrides[n].unitID
            /\ config.overrides[m].environment = config.overrides[n].environment)
             => m = n
      /\ \A e \in 1..Len(flags[i].environments) :
           LET entries == TargetEntries(flags[i].environments[e].data)
               environment ==
                 MappedEnvironment(flags[i].environments[e].env, args) IN
           \A t \in 1..Len(entries) :
             (entries[t].values # <<>> /\ UnitIDType(entries[t]) # None) =>
               \E n \in 1..Len(config.overrides) :
                 LET o == config.overrides[n] IN
                 /\ o.unitID = UnitIDType(entries[t])[1]
                 /\ o.environment = environment
                 /\ Range(entries[t].values) \subseteq
                      Range(IF entries[t].variation = 0
                              THEN o.passingIDs ELSE o.failingIDs)

\* an attribute that is neither key, nor well known, nor segment membership
IsCustomAttribute(attribute) ==
  attribute \notin {"key", "country", "email", "ip",
                    "segmentMatch", "not-segmentMatch"}

\* the custom-field mapping has an entry for (context kind, attribute)
HasCustomFieldEntry(clause) ==
  /\ ContextKindOf(clause) \in DOMAIN args.contextCustomAttributeMapping
  /\ clause.attribute
       \in DOMAIN args.contextCustomAttributeMapping[ContextKindOf(clause)]

TranslatesButForAttribute(clause) ==
  /\ clause.op \in {"lessThan", "lessThanOrEqual", "greaterThan",
                    "greaterThanOrEqual", "before", "after", "in", "matches",
                    "contains", "semVerEqual", "startsWith", "endsWith",
                    "segmentMatch"}
  /\ \E t \in {"string", "number", "boolean"} :
       \A n \in 1..Len(clause.values) : clause.values[n].t = t

\* C18: a clause on an attribute of a context kind for which no custom-field
\* mapping was given is mapped by heuristic to the field
\* <context kind>.<attribute> (organization.location), and its flag is still
\* translated.
C18_HeuristicCustomField ==
  \A s \in ClauseSites :
    (/\ IsCustomAttribute(SiteClause(s).attribute)
     /\ SiteClause(s).contextKind # None
     /\ ~HasCustomFieldEntry(SiteClause(s))
     /\ TranslatesButForAttribute(SiteClause(s))) =>
      /\ Emitted(SiteFlag(s).key)
      /\ \A conditions \in SiteConditions(s) :
           /\ conditions[s[4]].type = "custom_field"
           /\ conditions[s[4]].field =
                Some(ContextKindOf(SiteClause(s)) \o "."
                     \o SiteClause(s).attribute)

\* the value list is uniformly string, uniformly number or uniformly boolean
UniformValues(values) ==
  \E t \in {"string", "number", "boolean"} :
    \A n \in 1..Len(values) : values[n].t = t

BooleanValues(values) ==
  values # <<>> /\ \A n \in 1..Len(values) : values[n].t = "boolean"

\* a non-uniform value list rejects its flag with invalid_clause_values
NonUniformRejected(s) ==
  ~UniformValues(SiteClause(s).values) =>
    /\ ~Emitted(SiteFlag(s).key)
    /\ \E n \in 1..Len(ErrorsFor(SiteFlag(s).key)) :
         LET error == ErrorsFor(SiteFlag(s).key)[n] IN
         /\ error.type = "invalid_clause_values"
         /\ error.values = SiteClause(s).values

\* the target value emitted for the clause is the list of these string texts
EmittedTexts(s, texts) ==
  \A conditions \in SiteConditions(s) :
    conditions[s[4]].targetValue =
      Some(TargetValue(TRUE, [n \in 1..Len(texts) |-> JsString(texts[n])]))

\* the JSON text of each value of the clause
JsonTexts(s) ==
  [n \in 1..Len(SiteClause(s).values) |-> SiteClause(s).values[n].s]

\* C19 as stated: a value list that is not uniformly string, number or
\* boolean fails the clause with invalid_clause_values and rejects rule and
\* flag; a uniformly boolean list is emitted as the JSON text of each value.
C19_MixedRejectedBooleansAsJsonText ==
  \A s \in ClauseSites :
    /\ NonUniformRejected(s)
    /\ BooleanValues(SiteClause(s).values) => EmittedTexts(s, JsonTexts(s))

\* C19 amended: as stated, except that under startsWith the JSON text of
\* each boolean is emitted with ^ in front, and under endsWith with $ behind.
C19_MixedRejectedBooleansAsAnchoredJsonText ==
  \A s \in ClauseSites :
    /\ NonUniformRejected(s)
    /\ BooleanValues(SiteClause(s).values) =>
         EmittedTexts(s,
           [n \in 1..Len(SiteClause(s).values) |->
              IF SiteClause(s).op = "startsWith"
                THEN <<"^">> \o JsonTexts(s)[n]
              ELSE IF SiteClause(s).op = "endsWith"
                THEN JsonTexts(s)[n] \o <<"$">>
              ELSE JsonTexts(s)[n]])

\* a rejected flag whose clause holds one string and one number, the next
\* flag of the batch emitted
C19_Witness ==
  /\ tPc = "done"
  /\ Emitted("G")
  /\ \E s \in ClauseSites :
       /\ Len(SiteClause(s).values) = 2
       /\ SiteClause(s).values[1].t = "string"
       /\ SiteClause(s).values[2].t = "number"
       /\ HasError(SiteFlag(s).key, "invalid_clause_values")
       /\ ~Emitted(SiteFlag(s).key)

\* the keys of the operator table
TableOperators ==
  {"lessThan", "lessThanOrEqual", "greaterThan", "greaterThanOrEqual",
   "before", "after", "in", "matches", "contains", "semVerEqual",
   "startsWith", "endsWith", "segmentMatch"}

\* the entries of the table the claim spells out
ClaimedOperator(op, negate) ==
  CASE op = "lessThan" -> IF negate THEN "gte" ELSE "lt"
    [] op = "greaterThan" -> IF negate THEN "lte" ELSE "gt"
    [] op = "in" -> IF negate THEN "none" ELSE "any"
    [] op = "contains" -> IF negate THEN "str_contains_none"
                                    ELSE "str_contains_any"
    [] op = "matches" -> IF negate THEN "none" ELSE "str_matches"
    [] op \in {"startsWith", "endsWith"} -> "str_matches"

ClaimedOperators ==
  {"lessThan", "greaterThan", "in", "contains", "matches",
   "startsWith", "endsWith"}

\* C20: every emitted condition carries the operator the table gives for the
\* (operator, negate) pair of its clause, and a clause whose operator is
\* absent from the table rejects its flag with unsupported_operator.
C20_OperatorTable ==
  \A s \in ClauseSites :
    /\ SiteClause(s).op \in ClaimedOperators =>
         \A conditions \in SiteConditions(s) :
           conditions[s[4]].operator =
             Some(ClaimedOperator(SiteClause(s).op, SiteClause(s).negate))
    /\ SiteClause(s).op \notin TableOperators =>
         /\ ~Emitted(SiteFlag(s).key)
         /\ \E n \in 1..Len(ErrorsFor(SiteFlag(s).key)) :
              LET error == ErrorsFor(SiteFlag(s).key)[n] IN
              /\ error.type = "unsupported_operator"
              /\ error.operator = SiteClause(s).op

\* an emitted flag whose clause is a negated lessThan
C20_Witness ==
  \E s \in ClauseSites :
    /\ SiteClause(s).op = "lessThan"
    /\ SiteClause(s).negate
    /\ SiteConditions(s) # {}


\* ---- C21 ----
NoticesFor(key) ==
  IF key \in DOMAIN configTransformResult.noticesByConfigName
    THEN configTransformResult.noticesByConfigName[key] ELSE <<>>

HasNotice(key, type) ==
  \E n \in 1..Len(NoticesFor(key)) : NoticesFor(key)[n].type = type

\* null, or an object or array holding a null at some depth
RECURSIVE HoldsNull(_)
HoldsNull(value) ==
  \/ value.t = "null"
  \/ \E n \in 1..Len(value.kids) : HoldsNull(value.kids[n])

\* {value: original}
WrappedAsValue(original) == Json("object", "", <<"value">>, <<original>>)

\* every variant of every rule of config returns the value of the variation
\* of its name, as {value: original} when wrapped
VariantsReturn(config, flag, wrapped) ==
  \A k \in 1..Len(config.rules) :
    \A n \in 1..Len(config.rules[k].variants) :
      \E v \in 1..Len(flag.variations) :
        /\ config.rules[k].variants[n].name = flag.variations[v].name
        /\ config.rules[k].variants[n].returnValue
             = IF wrapped THEN WrappedAsValue(flag.variations[v].value)
                          ELSE flag.variations[v].value

\* the multivariate flags the transformer has returned a result for
ProcessedMultivariate ==
  {i \in ProcessedFlags : flags[i].kind = "multivariate"}

AnyNull(flag) ==
  \E v \in 1..Len(flag.variations) : HoldsNull(flag.variations[v].value)

AnyNonObject(flag) ==
  \E v \in 1..Len(flag.variations) : flag.variations[v].value.t # "object"

\* C21: for every multivariate flag the transformer returns a result for: a
\* null variation value, or a null at any depth of one, rejects the flag
\* with return_value_contains_null, without config and without notice;
\* otherwise, when some value is not a JSON object (an array counts as not
\* an object), an emitted config returns every value as {value: original}
\* and carries a return_value_wrapped notice; and when every value is an
\* object an emitted config returns the values unchanged, without notice.
C21_WrapOrRejectNull ==
  \A i \in ProcessedMultivariate :
    LET flag == flags[i] IN
    IF AnyNull(flag)
      THEN /\ HasError(flag.key, "return_value_contains_null")
           /\ ~Emitted(flag.key)
           /\ NoticesFor(flag.key) = <<>>
    ELSE IF AnyNonObject(flag)
      THEN \A config \in EmittedConfigs(flag.key) :
             /\ VariantsReturn(config, flag, TRUE)
             /\ HasNotice(flag.key, "return_value_wrapped")
    ELSE \A config \in EmittedConfigs(flag.key) :
             /\ VariantsReturn(config, flag, FALSE)
             /\ NoticesFor(flag.key) = <<>>

\* an emitted config whose array value went out wrapped, with its notice
C21_Witness ==
  \E i \in ProcessedMultivariate :
    /\ flags[i].variations[1].value.t = "array"
    /\ ~AnyNull(flags[i])
    /\ Emitted(flags[i].key)
    /\ HasNotice(flags[i].key, "return_value_wrapped")

\* ---- C22 ----
\* the environments that list the segment key, each with its listing
ListingsOf(key) ==
  UNION {{[env |-> ldSegmentsByEnv[e].env,
           segment |-> ldSegmentsByEnv[e].segments[s]] :
            s \in {s \in 1..Len(ldSegmentsByEnv[e].segments) :
                     ldSegmentsByEnv[e].segments[s].key = key}} :
         e \in 1..Len(ldSegmentsByEnv)}

\* the name the target knows an environment under
TargetEnvironment(env) ==
  IF env \in DOMAIN args.environmentNameMapping
    THEN args.environmentNameMapping[env] ELSE env

\* the rule passes everyone of one id list and is scoped to env
IsIdListRule(rule, env) ==
  /\ rule.environments = <<TargetEnvironment(env)>>
  /\ IsPercent(rule.passPercentage, 100)
  /\ Len(rule.conditions) = 1
  /\ rule.conditions[1].type \in {"user_id", "unit_id"}
  /\ rule.conditions[1].operator = Some("any")

IdListRules(config, env) ==
  {k \in 1..Len(config.rules) : IsIdListRule(config.rules[k], env)}

IdListRulesOver(config, env, ids) ==
  {k \in IdListRules(config, env) :
     config.rules[k].conditions[1].targetValue = Some(TargetValue(TRUE, ids))}

NonEmpty(opt) == opt # None /\ Len(opt[1]) > 0

\* the included-context groups of a listing; those that carry a value list
ContextGroups(segment) ==
  IF segment.includedContexts = None THEN {}
  ELSE {segment.includedContexts[1][c] :
          c \in 1..Len(segment.includedContexts[1])}

ValuedContextGroups(segment) ==
  {g \in ContextGroups(segment) : g.values # None}

CountOfGroups(segment, valuedOnly) ==
  IF segment.includedContexts = None THEN 0
  ELSE Cardinality({c \in 1..Len(segment.includedContexts[1]) :
                      valuedOnly => segment.includedContexts[1][c].values # None})

Unbounded(key) == \E l \in ListingsOf(key) : l.segment.unbounded

MixesExclusions(key) ==
  /\ \E l \in ListingsOf(key) : NonEmpty(l.segment.excluded)
  /\ \E l \in ListingsOf(key) : NonEmpty(l.segment.excludedContexts)

\* the id-list rules of an emitted segment are, per environment, one for the
\* included ids when there are any and one per included-context group
IdListRulesPerEnvironment(key, valuedOnly) ==
  /\ Cardinality(EmittedConfigs(key)) = 1
  /\ \A config \in EmittedConfigs(key) :
       /\ config.type = "segment"
       /\ config.segmentType = "rule_based"
       /\ \A l \in ListingsOf(key) :
            /\ Cardinality(IdListRules(config, l.env))
                 = (IF NonEmpty(l.segment.included) THEN 1 ELSE 0)
                   + CountOfGroups(l.segment, valuedOnly)
            /\ NonEmpty(l.segment.included) =>
                 IdListRulesOver(config, l.env, l.segment.included[1]) # {}
            /\ \A g \in ValuedContextGroups(l.segment) :
                 IdListRulesOver(config, l.env, g.values[1]) # {}

SegmentOutcome(key, valuedOnly) ==
  IF Unbounded(key)
    THEN HasError(key, "unsupported_segment_type") /\ ~Emitted(key)
  ELSE IF MixesExclusions(key)
    THEN HasError(key, "segment_has_exclusions") /\ ~Emitted(key)
  ELSE IdListRulesPerEnvironment(key, valuedOnly)

\* C22 as stated: once the call has returned, a segment unbounded in some
\* environment is rejected with unsupported_segment_type, a segment with a
\* non-empty excluded-id list and a non-empty excluded-context list is
\* rejected with segment_has_exclusions, and every other segment is emitted
\* rule_based with, per environment, one 100% rule for the included ids
\* (when non-empty) and one 100% rule per included-context group.
C22_SegmentRejectOrIdRules ==
  tPc = "done" =>
    \A key \in SegmentKeys(ldSegmentsByEnv) : SegmentOutcome(key, FALSE)

\* C22 amended: the same, with one 100% rule per included-context group
\* that carries a value list; a group whose values are null gives no rule.
C22_SegmentRejectOrValuedIdRules ==
  tPc = "done" =>
    \A key \in SegmentKeys(ldSegmentsByEnv) : SegmentOutcome(key, TRUE)

\* a returned call that emitted S, listed by two environments, with the
\* rule of its included ids and no rule for its group without values
C22_Witness ==
  /\ tPc = "done"
  /\ Emitted("S")
  /\ Cardinality(ListingsOf("S")) = 2
  /\ \E l \in ListingsOf("S") :
       /\ NonEmpty(l.segment.included)
       /\ ContextGroups(l.segment) # ValuedContextGroups(l.segment)

\* ---- C23 ----
\* the ordinary rules of the listings of a segment that do not translate
FailingSegmentRules(key) ==
  UNION {{<<l.env, k>> :
            k \in {k \in 1..Len(l.segment.rules) :
                     ~translateLaunchDarklyRule(key, l.env, l.segment.rules[k],
                        k - 1, Some(Percent(100)), args).transformed}} :
         l \in ListingsOf(key)}

\* C23: once the call has returned, a segment with an ordinary rule whose
\* clause fails to translate is a failure: it has errors under its key and
\* is not among the valid configs.
C23_SegmentRuleErrorsAggregate ==
  tPc = "done" =>
    \A key \in SegmentKeys(ldSegmentsByEnv) :
      FailingSegmentRules(key) # {} =>
        /\ ErrorsFor(key) # <<>>
        /\ ~Emitted(key)

\* ---- C24 ----
\* the text of a sequence of characters
RECURSIVE TextOf(_)
TextOf(chars) == IF chars = <<>> THEN "" ELSE Head(chars) \o TextOf(Tail(chars))

\* the identifiers a condition names: a scalar target value is the
\* identifier, an array holds one per item
NamedIds(condition) ==
  IF condition.targetValue = None THEN {}
  ELSE LET tv == condition.targetValue[1] IN
       IF tv.arr THEN {TextOf(tv.items[n].s) : n \in 1..Len(tv.items)}
       ELSE {tv.items[n] : n \in 1..Len(tv.items)}

\* the kind of config a condition type refers to
ReferredType(conditionType) ==
  IF conditionType \in {"passes_gate", "fails_gate"} THEN "gate"
  ELSE IF conditionType \in {"passes_segment", "fails_segment"} THEN "segment"
  ELSE "none"

InValidSet(type, id) ==
  \E c \in Range(configTransformResult.validConfigs) :
    c.type = type /\ c.id = id

ExistsInTarget(type, id) ==
  <<type, id>> \in DOMAIN target /\ target[<<type, id>>].present

\* <<c, k, n>>: condition n of rule k of valid config c, when it refers to
\* a gate or a segment
ReferenceSites ==
  UNION {UNION {
    {<<c, k, n>> :
       n \in {n \in 1..Len(configTransformResult.validConfigs[c].rules[k].conditions) :
                ReferredType(configTransformResult.validConfigs[c]
                               .rules[k].conditions[n].type) # "none"}} :
    k \in 1..Len(configTransformResult.validConfigs[c].rules)} :
    c \in 1..Len(configTransformResult.validConfigs)}

SiteCondition(s) ==
  configTransformResult.validConfigs[s[1]].rules[s[2]].conditions[s[3]]

\* C24: in the batch getLaunchDarklyConfigs returns, which cli() hands to
\* the importer as it is, every passes_gate/fails_gate and
\* passes_segment/fails_segment condition names a gate or segment of the
\* valid set or one that exists in the target.
C24_ReferencesResolve ==
  tPc = "done" =>
    \A s \in ReferenceSites :
      \A id \in NamedIds(SiteCondition(s)) :
        \/ InValidSet(ReferredType(SiteCondition(s).type), id)
        \/ ExistsInTarget(ReferredType(SiteCondition(s).type), id)

\* the particular case: no emitted condition names the prerequisite flag P
\* when translation has rejected P
C24_RejectedPrerequisiteNotNamed ==
  (tPc = "done" /\ ErrorsFor("P") # <<>>) =>
    \A s \in ReferenceSites : "P" \notin NamedIds(SiteCondition(s))

\* ---- C25 ----
\* <<c, k>>: rule k of valid config c
RuleSites ==
  UNION {{<<c, k>> : k \in 1..Len(configTransformResult.validConfigs[c].rules)} :
         c \in 1..Len(configTransformResult.validConfigs)}

RuleAt(s) == configTransformResult.validConfigs[s[1]].rules[s[2]]

\* C25: every rule of every emitted gate, dynamic config and segment has a
\* name of at most 100 characters, whatever the lengths of the environment
\* name, the flag key and the rule description.
C25_RuleNamesCapped ==
  \A s \in RuleSites : Len(RuleAt(s).name) <= MAX_RULE_NAME_LENGTH

\* the part that holds: the ordinary rules and the fallthrough rule of an
\* emitted gate have names of at most 100 characters
C25_GateRuleNamesCapped ==
  \A s \in RuleSites :
    (/\ configTransformResult.validConfigs[s[1]].type = "gate"
     /\ \A n \in 1..Len(RuleAt(s).conditions) :
          RuleAt(s).conditions[n].type \notin {"passes_gate", "fails_gate"})
      => Len(RuleAt(s).name) <= MAX_RULE_NAME_LENGTH

\* ---- C26 ----
\* the rules of config scoped to the target environment, in emitted order
RulesScopedTo(config, environment) ==
  SelectSeq(config.rules, LAMBDA r : r.environments = <<environment>>)

\* where a rule belongs in the fixed order, read off its first condition:
\* 1 individual target, 2 prerequisite, 3 ordinary, 4 unconditional
OrderRank(rule) ==
  LET type == rule.conditions[1].type IN
  IF type \in {"user_id", "unit_id"} THEN 1
  ELSE IF type \in {"passes_gate", "fails_gate"} THEN 2
  ELSE IF type = "public" THEN 4
  ELSE 3

CountOfRank(rules, rank) ==
  Cardinality({k \in 1..Len(rules) : OrderRank(rules[k]) = rank})

\* targets, prerequisite rules, ordinary rules, then one fallthrough rule
InFixedOrder(rules, flag, data) ==
  /\ \A k \in 1..(Len(rules) - 1) : OrderRank(rules[k]) <= OrderRank(rules[k + 1])
  /\ Len(rules) > 0
  /\ OrderRank(rules[Len(rules)]) = 4
  /\ CountOfRank(rules, 4) = 1
  /\ CountOfRank(rules, 3) = Len(OrEmpty(data.rules))
  /\ CountOfRank(rules, 2) = Len(OrEmpty(data.prerequisites))
  /\ CountOfRank(rules, 1) =
       (IF flag.kind = "multivariate" THEN Len(OverrideTargets(data)) ELSE 0)

\* the processed flags that were emitted
EmittedFlags == {i \in ProcessedFlags : Emitted(flags[i].key)}

\* C26: for every emitted flag and every environment of it inside the
\* allow-list, the rules scoped to the environment are its individual-target
\* rules (dynamic config only), its prerequisite rules, its ordinary rules
\* and then exactly one unconditional fallthrough rule, in that order; an
\* environment outside the allow-list has no rule.
C26_RulesInFixedOrder ==
  \A i \in EmittedFlags :
    \A config \in EmittedConfigs(flags[i].key) :
      \A e \in 1..Len(flags[i].environments) :
        LET entry == flags[i].environments[e]
            rules == RulesScopedTo(config, TargetEnvironment(entry.env)) IN
        IF args.onlyEnvironments # None /\ entry.env \notin args.onlyEnvironments[1]
          THEN rules = <<>>
          ELSE InFixedOrder(rules, flags[i], entry.data)

\* the same for the flags whose environments all declare an off variation
C26_WhenOffVariationDeclared ==
  \A i \in EmittedFlags :
    (\A e \in 1..Len(flags[i].environments) :
       flags[i].environments[e].data.offVariation # None) =>
      \A config \in EmittedConfigs(flags[i].key) :
        \A e \in 1..Len(flags[i].environments) :
          LET entry == flags[i].environments[e]
              rules == RulesScopedTo(config, TargetEnvironment(entry.env)) IN
          IF args.onlyEnvironments # None
             /\ entry.env \notin args.onlyEnvironments[1]
            THEN rules = <<>>
            ELSE InFixedOrder(rules, flags[i], entry.data)

\* ---- C27 ----
\* no emitted unit_id condition and no emitted override is without a
\* unit-id-type
NoUndefinedUnitID ==
  /\ \A s \in RuleSites :
       \A n \in 1..Len(RuleAt(s).conditions) :
         RuleAt(s).conditions[n].type = "unit_id" =>
           /\ RuleAt(s).conditions[n].customID # None
           /\ RuleAt(s).conditions[n].customID[1] # ""
  /\ \A c \in 1..Len(configTransformResult.validConfigs) :
       \A o \in 1..Len(configTransformResult.validConfigs[c].overrides) :
         configTransformResult.validConfigs[c].overrides[o].unitID # ""

\* the segment has an included-context group with values whose context
\* kind is neither absent nor user and has no entry in the mapping
HasUnmappedGroup(key) ==
  \E l \in ListingsOf(key) :
    \E g \in ValuedContextGroups(l.segment) :
      /\ g.contextKind # None
      /\ g.contextKind[1] \notin {"", "user"}
      /\ g.contextKind[1] \notin DOMAIN args.contextKindToUnitIDMapping

\* C27: a segment with an included-context group of a context kind the
\* mapping has no entry for is rejected with unit_id_not_mapped and not
\* emitted, and no emitted unit_id condition and no emitted override is
\* without a unit-id-type.
C27_UnitIdMappedOrRejected ==
  /\ NoUndefinedUnitID
  /\ tPc = "done" =>
       \A key \in SegmentKeys(ldSegmentsByEnv) :
         HasUnmappedGroup(key) =>
           HasError(key, "unit_id_not_mapped") /\ ~Emitted(key)

\* ---- C28 ----
\* processed boolean flags emitted with an on environment, as <<i, e>>
OnBooleanSites ==
  {s \in UNION {{<<i, e>> : e \in 1..Len(flags[i].environments)} :
                i \in ProcessedFlags} :
     /\ flags[s[1]].kind = "boolean"
     /\ flags[s[1]].environments[s[2]].data.on
     /\ Emitted(flags[s[1]].key)}

\* the weight the rollout gives to the variation of index 0, wherever its
\* entry stands in the list; 0 when the rollout has no such entry
RECURSIVE EnabledWeight(_)
EnabledWeight(variations) ==
  IF variations = <<>> THEN 0
  ELSE IF Head(variations).variation = 0 THEN Head(variations).weight
  ELSE EnabledWeight(Tail(variations))

\* the pass percentage of rule is the enabled weight of rollout over 1000
PassesEnabledWeight(rule, rollout) ==
  rule.passPercentage.num * 1000
    = EnabledWeight(rollout.variations) * rule.passPercentage.den

\* the entry of variation 0 is first in the rollout
EnabledFirst(selector) ==
  selector.rollout # None => selector.rollout[1].variations[1].variation = 0

\* C28: for every weighted rollout of an on environment of a boolean flag
\* (of a rule or of the fallthrough) the pass percentage of the emitted rule
\* is the weight of variation 0 divided by 1000, whatever the position of
\* that variation in the rollout.
C28_PassPercentageOfEnabledVariation ==
  \A s \in OnBooleanSites :
    LET flag == flags[s[1]]
        entry == flag.environments[s[2]]
        rules == OrEmpty(entry.data.rules) IN
    \A config \in EmittedConfigs(flag.key) :
      /\ Len(config.rules) = Len(rules) + 1
      /\ \A k \in 1..Len(rules) :
           rules[k].rollout # None =>
             PassesEnabledWeight(config.rules[k], rules[k].rollout[1])
      /\ (entry.data.fallthrough # None
          /\ entry.data.fallthrough[1].rollout # None) =>
             PassesEnabledWeight(config.rules[Len(rules) + 1],
                                 entry.data.fallthrough[1].rollout[1])

\* the same over the environments whose rollouts list variation 0 first
C28_WhenEnabledFirst ==
  \A s \in OnBooleanSites :
    LET flag == flags[s[1]]
        entry == flag.environments[s[2]]
        rules == OrEmpty(entry.data.rules) IN
    ((\A k \in 1..Len(rules) : EnabledFirst(rules[k]))
     /\ (entry.data.fallthrough # None
           => EnabledFirst(entry.data.fallthrough[1]))) =>
    \A config \in EmittedConfigs(flag.key) :
      /\ Len(config.rules) = Len(rules) + 1
      /\ \A k \in 1..Len(rules) :
           rules[k].rollout # None =>
             PassesEnabledWeight(config.rules[k], rules[k].rollout[1])
      /\ (entry.data.fallthrough # None
          /\ entry.data.fallthrough[1].rollout # None) =>
             PassesEnabledWeight(config.rules[Len(rules) + 1],
                                 entry.data.fallthrough[1].rollout[1])

\* ---- C29 ----
\* the rules of a valid config that share their name with another rule of
\* the same config
SharedNameSites ==
  {s \in RuleSites :
     \E k \in 1..Len(configTransformResult.validConfigs[s[1]].rules) :
       /\ k # s[2]
       /\ configTransformResult.validConfigs[s[1]].rules[k].name
            = RuleAt(s).name}

\* C29: within one emitted gate, dynamic config or segment no two rules
\* have the same name, whatever the environments, the rule descriptions and
\* the prerequisites.
C29_RuleNamesDistinct == SharedNameSites = {}

\* a rule carrying a condition on another gate: a prerequisite rule
IsGateReferenceRule(rule) ==
  \E n \in 1..Len(rule.conditions) :
    rule.conditions[n].type \in {"passes_gate", "fails_gate"}

\* the part that holds: rules sharing a name are prerequisite rules, rules
\* of a gate named at the cap, or rules of a segment
C29_SharedNamesAreKnown ==
  \A s \in SharedNameSites :
    \/ IsGateReferenceRule(RuleAt(s))
    \/ /\ configTransformResult.validConfigs[s[1]].type = "gate"
       /\ Len(RuleAt(s).name) = MAX_RULE_NAME_LENGTH
    \/ configTransformResult.validConfigs[s[1]].type = "segment"

\* ---- C30 ----
\* the condition as the resolver reads it: its type and its target value,
\* an array or a scalar
ResolverCondition(condition) ==
  IF condition.targetValue = None THEN Cond(condition.type, FALSE, "")
  ELSE LET tv == condition.targetValue[1] IN
       IF tv.arr
       THEN Cond(condition.type, TRUE,
                 IF tv.items = <<>> THEN "" ELSE TextOf(tv.items[1].s))
       ELSE Cond(condition.type, FALSE,
                 IF tv.items = <<>> THEN "" ELSE tv.items[1])

\* the emitted segments as the resolver takes them: id and rules
ResolverConfig(config) ==
  [id |-> config.id,
   rules |-> [k \in 1..Len(config.rules) |->
                [conditions |->
                   [n \in 1..Len(config.rules[k].conditions) |->
                      ResolverCondition(config.rules[k].conditions[n])]]]]

EmittedSegments ==
  SelectSeq(configTransformResult.validConfigs, LAMBDA c : c.type = "segment")

ResolvedSegments ==
  sortConfigsFromDependentToIndependent(
    [i \in 1..Len(EmittedSegments) |-> ResolverConfig(EmittedSegments[i])],
    "segment")

\* the position of id in the resolver's result, 0 when it is not there
PositionOf(id, result) ==
  IF \E i \in 1..Len(result) : result[i].id = id
  THEN CHOOSE i \in 1..Len(result) : result[i].id = id
  ELSE 0

\* <<c, k, n>>: a segment-membership condition of an emitted segment
SegmentMembershipSites ==
  {s \in ReferenceSites :
     /\ configTransformResult.validConfigs[s[1]].type = "segment"
     /\ ReferredType(SiteCondition(s).type) = "segment"}

\* a segment-membership clause gives a condition without operator whose
\* type follows the attribute name alone and whose target value names S
SegmentConditionShape ==
  \A s \in SegmentMembershipSites :
    /\ SiteCondition(s).operator = None
    /\ NamedIds(SiteCondition(s)) = {"S"}

\* C30: a segment-membership clause translates to a passes_segment or
\* fails_segment condition without operator whose target value names the
\* segment, and the resolver, given the emitted segments, puts every segment
\* with such a condition on an emitted segment before that segment.
C30_SegmentReferencesOrdered ==
  tPc = "done" =>
    /\ SegmentConditionShape
    /\ ResolvedSegments.ok
    /\ \A s \in SegmentMembershipSites :
         \A id \in NamedIds(SiteCondition(s)) :
           InValidSet("segment", id) =>
             PositionOf(configTransformResult.validConfigs[s[1]].id,
                        ResolvedSegments.result)
               < PositionOf(id, ResolvedSegments.result)

\* the part that holds: the shape of the condition, and its type by the
\* attribute name whatever the negate flag
C30_SegmentConditionShapeHolds ==
  tPc = "done" =>
    /\ SegmentConditionShape
    /\ \A s \in SegmentMembershipSites :
         \E l \in ListingsOf("T") :
           \E k \in 1..Len(l.segment.rules) :
             \E clause \in Range(l.segment.rules[k].clauses) :
               SiteCondition(s).type =
                 (IF clause.attribute = "segmentMatch" THEN "passes_segment"
                  ELSE "fails_segment")

\* the emitted T has a membership condition on the emitted S
C30_ReferenceEmitted ==
  /\ tPc = "done"
  /\ \E s \in SegmentMembershipSites :
       /\ configTransformResult.validConfigs[s[1]].id = "T"
       /\ InValidSet("segment", "S")
============================================================================
